---- MODULE Spec2Model ----
(***************************************************************************)
(* Hybrid vector-and-graph retrieval: the MMR graph traversal and the      *)
(* plain traversal of GraphStore (graph_store.py) over a small store of    *)
(* nodes with embeddings and incoming/outgoing link tags.                  *)
(***************************************************************************)
EXTENDS Bags, FiniteSets, Integers, Sequences, TLC

(***************************************************************************)
(* Bounds of the model.                                                    *)
(***************************************************************************)
MaxK == 3

MaxDepth == 3

\* bounds of k and depth in the plain traversal
TravMaxK == 2

TravMaxDepth == 2

\* limit=k_per_tag or 10 in GraphStore._get_adjacent
DefaultAdjacentLimit == 10

(***************************************************************************)
(* The store: node ids, tags and embeddings.                               *)
(***************************************************************************)
NodeIds == {"A", "B", "C"}

Tags == {"t1", "t2"}

\* Embeddings are 2-vectors of norm 5, so that the cosine similarity of two
\* of them is Dot/25 exactly.
QueryEmbedding == <<5, 0>>

Dot(u, v) == u[1] * v[1] + u[2] * v[2]

\* cosine_similarity in units of 1/25
CosSim(u, v) == Dot(u, v)

\* lambda_mult is LambdaNum/2; scores are in units of 1/50
LambdaNums == {1, 2}

\* text_embedding of each node
FixedEmbedding == [n \in NodeIds |->
    CASE n = "A" -> <<5, 0>> [] n = "B" -> <<0, 5>> [] OTHER -> <<4, 3>>]

\* the rows (text_embedding, link_to_tags, link_from_tags) a node may have,
\* with outgoing tag sets from O and incoming tag sets from I
RowsOf(n, O, I) ==
  [text_embedding : {FixedEmbedding[n]}, link_to_tags : O, link_from_tags : I]

AtMostOne(T) == {{}} \cup {{t} : t \in T}

\* A tag is looked up (link_from_tags CONTAINS ?) only as an outgoing tag of
\* a node that was reached: an incoming tag that no node has as an outgoing
\* tag is never read, and the stores leave such tags out.
EveryTagHasSource(st) ==
  \A n \in DOMAIN st :
     st[n].link_from_tags \subseteq UNION {st[m].link_to_tags : m \in DOMAIN st}

\* the stores of the MMR search: every node has its fixed embedding, at most
\* one outgoing and at most one incoming tag.  The two tags are
\* interchangeable, so an outgoing tag of A is taken to be t1.
Stores ==
  {st \in
     {[n \in NodeIds |-> IF n = "A" THEN a ELSE IF n = "B" THEN b ELSE c] :
        a \in RowsOf("A", AtMostOne({"t1"}), AtMostOne(Tags)),
        b \in RowsOf("B", AtMostOne(Tags), AtMostOne(Tags)),
        c \in RowsOf("C", AtMostOne(Tags), AtMostOne(Tags))} :
     EveryTagHasSource(st)}

\* the stores of the plain traversal: sets of the two tags (B and C with at
\* most one outgoing tag), and a third tag that may link C to B; a single
\* outgoing tag of A is taken to be t1, the two tags being interchangeable
TravStores ==
  {st \in
     {[n \in NodeIds |-> IF n = "A" THEN a ELSE IF n = "B" THEN b ELSE c] :
        a \in RowsOf("A", {{}, {"t1"}, Tags}, SUBSET Tags),
        b \in RowsOf("B", AtMostOne(Tags), SUBSET (Tags \cup {"t3"})),
        c \in RowsOf("C", AtMostOne(Tags \cup {"t3"}), SUBSET Tags)} :
     EveryTagHasSource(st)}

VARIABLES
  store,           \* the node table
  \* ---- GraphStore.mmr_traversal_search ----
  mpc,             \* position in mmr_traversal_search
  k, depth, fetch_k, adjacent_k, lambda_mult, score_threshold, initial_roots,
  outgoing_tags,   \* id -> outgoing tags, for each unselected node
  visited_tags,    \* tags already used for an adjacency query
  depths,          \* id -> depth of the candidate
  candidates,      \* MmrHelper: id -> candidate (embedding, scores)
  selected_ids,    \* MmrHelper: ids in selection order
  iter,            \* iterations of `for _ in range(k)` done
  seeds,           \* history: the initial candidate ids (depth 0)
  adj_queries,     \* history: bag of adjacency queries issued
  root_adjacents,  \* history: ids returned for the initial roots' tags
  adjacent_tags,   \* the tags of the _get_adjacent call under way
  ann_queries,     \* history: number of similarity queries issued
  \* ---- GraphStore.traversal_search (shares k, depth, visited_tags, seeds)
  tpc,             \* position in traversal_search
  visited_ids,     \* visited id -> depth
  visit_order,     \* the keys of visited_ids, in insertion order
  result,          \* the ids of the returned nodes
  \* ---- ConcurrentQueries scope ----
  cq_queue,        \* bag of submitted queries waiting for a slot
  cq_inflight,     \* bag of queries in flight
  cq_pending,      \* submitted queries not yet completed
  cq_error,        \* the error the scope will raise
  submitted,       \* history: bag of all submitted queries
  called,          \* history: bag of callback invocations (query, rows)
  failed,          \* history: the failed queries, in order
  corrected,       \* history: a recorded depth was lowered by a later visit
  \* ---- GraphStore._nodes_with_ids / CassandraKnowledgeStore._query_by_ids
  fpc,             \* position in the lookup by ids
  ids,             \* the requested ids, in input order
  next_index,      \* index of the next id of `for node_id in ids`
  results,         \* the results collected by the callbacks
  returned,        \* the returned list
  completed,       \* history: the ids looked up, in completion order
  \* ---- entry of a search with a metadata filter ----
  spc,             \* position in the search
  search_op,       \* the search called
  metadata_filter, \* the keys of the metadata filter
  policy,          \* the metadata indexing policy (mode, fields)
  io_log,          \* history: the I/O done by the call, in order
  prepared_query_cache, \* self._prepared_query_cache: the CQL texts prepared
  search_calls,    \* the searches called on this GraphStore so far
  \* ---- CassandraKnowledgeStore.mmr_traversal_search (shares k, depth,
  \*      seeds, fetch_k, lambda_mult, score_threshold, selected_ids) ----
  cpc,             \* position in the search
  unselected,      \* the candidates, in insertion order
  best_score,      \* score of the next pick
  next_id,         \* id of the next pick
  expanded,        \* history: the selected ids whose edges were queried
  \* ---- GraphStore.add_nodes ----
  apc,             \* position in add_nodes
  input_nodes,     \* the input nodes, in input order
  node_ids,        \* the ids assigned to the input nodes
  \* ---- the caller and the threads that run callbacks ----
  cancelled,       \* the caller has raised its cancellation signal
  running,         \* callbacks under way on the threads of the driver
  \* ---- CassandraDatabase.aadd_chunks ----
  ppc,             \* position in aadd_chunks
  put_chunks,      \* the input chunks, in input order
  concurrent_inserts,
  all_tasks,       \* the row writes (_limited_put), in creation order
  tasks_per_chunk, \* (doc_id, chunk_id) -> row writes not known to be done
  put_result       \* the returned list, or the chunks named by the error

\* variables shared by the two searches
sharedVars == <<k, depth, visited_tags, seeds>>

\* variables of mmr_traversal_search alone
mmrOnly == <<mpc, fetch_k, adjacent_k, lambda_mult, score_threshold,
             initial_roots, outgoing_tags, depths, candidates, selected_ids,
             iter, adj_queries, root_adjacents, adjacent_tags, ann_queries>>

\* variables of traversal_search and its query scope alone
travOnly == <<tpc, visited_ids, visit_order, result, cq_queue, cq_inflight, cq_pending,
              cq_error, submitted, called, failed, corrected>>

\* variables of the lookup by ids
fetchOnly == <<fpc, ids, next_index, results, returned, completed>>

\* variables of the entry of a filtered search
searchOnly == <<spc, search_op, metadata_filter, policy, io_log,
               prepared_query_cache, search_calls>>

\* variables of the Cassandra MMR search alone
ckOnly == <<cpc, unselected, best_score, next_id, expanded>>

\* variables of add_nodes alone
addOnly == <<apc, input_nodes, node_ids>>

\* the caller's signal and the callbacks under way
schedOnly == <<cancelled, running>>

\* variables of aadd_chunks alone
putOnly == <<ppc, put_chunks, concurrent_inserts, all_tasks, tasks_per_chunk,
             put_result>>

\* what an action of mmr_traversal_search leaves alone
notMmr == <<travOnly, fetchOnly, searchOnly, ckOnly, addOnly, schedOnly, putOnly>>

\* what an action of traversal_search leaves alone
notTrav == <<mmrOnly, fetchOnly, searchOnly, ckOnly, addOnly,
            schedOnly, putOnly>>

\* what an action of a lookup by ids leaves alone (the query scope apart)
notFetch == <<store, sharedVars, mmrOnly, tpc, visited_ids, visit_order, result,
              corrected,
              searchOnly, ckOnly, addOnly, schedOnly, putOnly>>

\* what an action of the entry of a filtered search leaves alone
notSearch == <<store, sharedVars, mmrOnly, travOnly, fetchOnly, ckOnly,
               addOnly, schedOnly, putOnly>>

\* what an action of the Cassandra MMR search leaves alone
notCk == <<visited_tags, mpc, adjacent_k, initial_roots, outgoing_tags, depths,
           candidates, iter, adj_queries, root_adjacents, adjacent_tags, ann_queries,
           travOnly, fetchOnly, searchOnly, addOnly, schedOnly, putOnly>>

\* what an action of add_nodes leaves alone (the query scope apart)
notAdd == <<sharedVars, mmrOnly, tpc, visited_ids, visit_order, result,
              corrected,
            fetchOnly, searchOnly, ckOnly, schedOnly, putOnly>>

vars == <<store, sharedVars, mmrOnly, travOnly, fetchOnly, searchOnly, ckOnly,
          addOnly, schedOnly, putOnly>>

(***************************************************************************)
(* Storage queries.                                                        *)
(***************************************************************************)
Min(a, b) == IF a < b THEN a ELSE b

\* ORDER BY text_embedding ANN OF ? LIMIT ?: the possible results of a top-n
\* nearest-neighbour query over the rows `S` (ties in any order).
TopSets(S, n) ==
  {R \in SUBSET S :
     /\ Cardinality(R) = Min(n, Cardinality(S))
     /\ \A r \in R : \A s \in S \ R :
          CosSim(QueryEmbedding, store[r].text_embedding)
            >= CosSim(QueryEmbedding, store[s].text_embedding)}

\* WHERE link_from_tags CONTAINS (kind, tag)
WithIncoming(tag) == {n \in DOMAIN store : tag \in store[n].link_from_tags}

\* GraphStore._get_outgoing_tags
GetOutgoingTags(source_ids) ==
  UNION {store[n].link_to_tags : n \in source_ids \cap DOMAIN store}

AdjacentLimit(k_per_tag) ==
  IF k_per_tag = 0 THEN DefaultAdjacentLimit ELSE k_per_tag

\* GraphStore._get_adjacent: the possible sets of target ids
GetAdjacent(tags, k_per_tag) ==
  {UNION {f[t] : t \in tags} :
     f \in {g \in [tags -> SUBSET DOMAIN store] :
              \A t \in tags :
                 g[t] \in TopSets(WithIncoming(t), AdjacentLimit(k_per_tag))}}

\* the adjacency queries of one _get_adjacent call, added to the history
LogAdjacent(src, tags, k_per_tag) ==
  adj_queries (+) SetToBag({[src |-> src, tag |-> t,
                             limit |-> AdjacentLimit(k_per_tag)] : t \in tags})

(***************************************************************************)
(* MmrHelper (candidate pool).                                             *)
(***************************************************************************)
\* a new candidate: similarity_to_query = lambda * sim(query, embedding),
\* redundancy = 0, score = similarity_to_query
NewCandidate(embedding) ==
  [embedding |-> embedding,
   similarity_to_query |-> lambda_mult * CosSim(QueryEmbedding, embedding),
   redundancy |-> 0,
   score |-> lambda_mult * CosSim(QueryEmbedding, embedding)]

\* ids that add_candidates leaves out: the ids it already tracks, which are
\* the candidates of the pool (pop_best removes the one it returns)
KnownToHelper(pool, selected) == DOMAIN pool

AddCandidates(pool, selected, new_ids) ==
  [n \in DOMAIN pool \cup (new_ids \ KnownToHelper(pool, selected)) |->
     IF n \in DOMAIN pool THEN pool[n]
     ELSE NewCandidate(store[n].text_embedding)]

\* redundancy update of one candidate for a selected embedding
UpdateRedundancy(c, selected_embedding) ==
  LET r == (2 - lambda_mult) * CosSim(selected_embedding, c.embedding)
  IN IF r > c.redundancy
       THEN [c EXCEPT !.redundancy = r, !.score = c.similarity_to_query - r]
       ELSE c

UpdateForSelection(pool, selected_embedding) ==
  [n \in DOMAIN pool |-> UpdateRedundancy(pool[n], selected_embedding)]

BestIds(pool) ==
  {n \in DOMAIN pool : \A m \in DOMAIN pool : pool[n].score >= pool[m].score}

BelowThreshold(score) ==
  score_threshold.finite /\ score < score_threshold.value

\* pop_best returns None: the pool is empty or the best score is below the
\* threshold
PopBestNone(pool) ==
  \/ DOMAIN pool = {}
  \/ \E n \in BestIds(pool) : BelowThreshold(pool[n].score)

PoolWithout(pool, id) == [n \in DOMAIN pool \ {id} |-> pool[n]]

(***************************************************************************)
(* GraphStore.mmr_traversal_search                                         *)
(***************************************************************************)
NegInf == [finite |-> FALSE, value |-> 0]

Thresholds == {NegInf, [finite |-> TRUE, value |-> 10]}

RootChoices == {{}, {"A"}}

FetchKs == {0, 1, 2}

AdjacentKs == {0, 1}

\* the variables of the operations that a specification does not run
FetchIdle ==
  /\ fpc = "unused"
  /\ ids = << >>
  /\ next_index = 0
  /\ results = << >>
  /\ returned = << >>
  /\ completed = << >>

SearchIdle ==
  /\ spc = "unused"
  /\ search_op = "none"
  /\ metadata_filter = {}
  /\ prepared_query_cache = {}
  /\ search_calls = 0
  /\ policy = [mode |-> "none", fields |-> {}]
  /\ io_log = << >>

CkIdle ==
  /\ cpc = "unused"
  /\ unselected = << >>
  /\ best_score = NegInf
  /\ next_id = "None"
  /\ expanded = {}

AddIdle ==
  /\ apc = "unused"
  /\ input_nodes = << >>
  /\ node_ids = << >>

SchedIdle ==
  /\ cancelled = FALSE
  /\ running = EmptyBag

PutIdle ==
  /\ ppc = "unused"
  /\ put_chunks = << >>
  /\ concurrent_inserts = 0
  /\ all_tasks = << >>
  /\ tasks_per_chunk = << >>
  /\ put_result = << >>

EngineIdle ==
  /\ cq_queue = EmptyBag
  /\ cq_inflight = EmptyBag
  /\ cq_pending = 0
  /\ cq_error = {}
  /\ submitted = EmptyBag
  /\ called = EmptyBag
  /\ failed = << >>

TravIdle ==
  /\ tpc = "unused"
  /\ visited_ids = << >>
  /\ visit_order = << >>
  /\ result = {}
  /\ corrected = FALSE

MmrIdle ==
  /\ mpc = "unused"
  /\ fetch_k = 0
  /\ adjacent_k = 0
  /\ lambda_mult = 1
  /\ score_threshold = NegInf
  /\ initial_roots = {}
  /\ outgoing_tags = << >>
  /\ depths = << >>
  /\ candidates = << >>
  /\ selected_ids = << >>
  /\ iter = 0
  /\ adj_queries = EmptyBag
  /\ root_adjacents = {}
  /\ adjacent_tags = {}
  /\ ann_queries = 0

SharedIdle ==
  /\ k = 0
  /\ depth = 0
  /\ visited_tags = {}
  /\ seeds = {}

MmrInit ==
  /\ store \in Stores
  /\ mpc = "start"
  /\ k \in 1..MaxK
  /\ depth \in 0..MaxDepth
  /\ fetch_k \in FetchKs
  /\ adjacent_k \in AdjacentKs
  /\ lambda_mult \in LambdaNums
  /\ score_threshold \in Thresholds
  /\ initial_roots \in RootChoices
  /\ outgoing_tags = << >>
  /\ visited_tags = {}
  /\ depths = << >>
  /\ candidates = << >>
  /\ selected_ids = << >>
  /\ iter = 0
  /\ seeds = {}
  /\ adj_queries = EmptyBag
  /\ root_adjacents = {}
  /\ adjacent_tags = {}
  /\ ann_queries = 0
  /\ FetchIdle /\ SearchIdle /\ CkIdle /\ AddIdle
  /\ SchedIdle
  /\ PutIdle
  /\ tpc = "unused"
  /\ visited_ids = << >>
  /\ visit_order = << >>
  /\ result = {}
  /\ cq_queue = EmptyBag
  /\ cq_inflight = EmptyBag
  /\ cq_pending = 0
  /\ cq_error = {}
  /\ submitted = EmptyBag
  /\ called = EmptyBag
  /\ failed = << >>
  /\ corrected = FALSE

\* outgoing_tags after the targets not yet in it are recorded
RecordTargets(tags_map, targets) ==
  [n \in DOMAIN tags_map \cup targets |->
     IF n \in DOMAIN tags_map THEN tags_map[n] ELSE store[n].link_to_tags]

\* faulty variant: the neighborhood is not put into outgoing_tags
MarkNeighborhoodSkipped(tags_map, neighborhood) == tags_map

\* outgoing_tags.update({content_id: set() for content_id in neighborhood})
MarkNeighborhood(tags_map, neighborhood) ==
  [n \in DOMAIN tags_map \cup neighborhood |->
     IF n \in neighborhood THEN {} ELSE tags_map[n]]

\* fetch_neighborhood(initial_roots) up to its first wait: the roots are put
\* into outgoing_tags, and _get_outgoing_tags submits a lookup for every root
\* and waits for its scope to drain
FetchNeighborhood ==
  /\ mpc = "start"
  /\ initial_roots # {}
  /\ outgoing_tags' = MarkNeighborhood(outgoing_tags, initial_roots)
  /\ mpc' = "outgoing"
  /\ UNCHANGED <<store, k, depth, fetch_k, adjacent_k, lambda_mult,
                 score_threshold, initial_roots, visited_tags, depths,
                 candidates, selected_ids, iter, seeds, adj_queries,
                 root_adjacents, adjacent_tags, ann_queries>>
  /\ UNCHANGED notMmr

\* the scope of _get_outgoing_tags has drained: the tags of the roots are the
\* visited_tags of fetch_neighborhood, a local variable, and _get_adjacent
\* submits an adjacency query for each of them and waits for its scope
NeighborhoodTags ==
  /\ mpc = "outgoing"
  /\ adjacent_tags' = GetOutgoingTags(initial_roots)
  /\ adj_queries' = LogAdjacent("roots", GetOutgoingTags(initial_roots),
                                adjacent_k)
  /\ mpc' = "root_adjacent"
  /\ UNCHANGED <<store, k, depth, fetch_k, adjacent_k, lambda_mult,
                 score_threshold, initial_roots, outgoing_tags, visited_tags,
                 depths, candidates, selected_ids, iter, seeds,
                 root_adjacents, ann_queries>>
  /\ UNCHANGED notMmr

\* the scope of _get_adjacent has drained: the targets not yet in
\* outgoing_tags are recorded and handed to helper.add_candidates
NeighborhoodAdjacents ==
  /\ mpc = "root_adjacent"
  /\ \E adjacents \in GetAdjacent(adjacent_tags, adjacent_k) :
       /\ outgoing_tags' = RecordTargets(outgoing_tags, adjacents)
       /\ candidates' = AddCandidates(candidates, selected_ids,
                                      adjacents \ DOMAIN outgoing_tags)
       /\ root_adjacents' = adjacents
  /\ adjacent_tags' = {}
  /\ mpc' = "fetch"
  /\ UNCHANGED <<store, k, depth, fetch_k, adjacent_k, lambda_mult,
                 score_threshold, initial_roots, visited_tags, depths,
                 selected_ids, iter, seeds, adj_queries, ann_queries>>
  /\ UNCHANGED notMmr

\* a query of the scope the call waits in fails (_get_outgoing_tags has a
\* lookup for every root, _get_adjacent a query for every tag): the scope
\* raises at its exit and the exception leaves mmr_traversal_search
MmrScopeRaises ==
  /\ \/ mpc = "outgoing"
     \/ mpc \in {"root_adjacent", "adjacent"} /\ adjacent_tags # {}
  /\ mpc' = "raised"
  /\ UNCHANGED <<store, k, depth, fetch_k, adjacent_k, lambda_mult,
                 score_threshold, initial_roots, outgoing_tags, visited_tags,
                 depths, candidates, selected_ids, iter, seeds, adj_queries,
                 root_adjacents, adjacent_tags, ann_queries>>
  /\ UNCHANGED notMmr

AtFetchInitial == mpc = "fetch" \/ (mpc = "start" /\ initial_roots = {})

\* fetch_initial_candidates()
FetchInitialCandidates ==
  /\ AtFetchInitial
  /\ fetch_k > 0
  /\ \E fetched \in TopSets(DOMAIN store, fetch_k) :
       /\ outgoing_tags' = RecordTargets(outgoing_tags, fetched)
       /\ candidates' = AddCandidates(candidates, selected_ids,
                                      fetched \ DOMAIN outgoing_tags)
  /\ ann_queries' = ann_queries + 1
  /\ mpc' = "depths"
  /\ UNCHANGED <<store, k, depth, fetch_k, adjacent_k, lambda_mult,
                 score_threshold, initial_roots, visited_tags, depths,
                 selected_ids, iter, seeds, adj_queries, root_adjacents, adjacent_tags>>
  /\ UNCHANGED notMmr

\* self._session.execute of fetch_initial_candidates fails: the exception
\* leaves mmr_traversal_search
FetchInitialRaises ==
  /\ AtFetchInitial
  /\ fetch_k > 0
  /\ ann_queries' = ann_queries + 1
  /\ mpc' = "raised"
  /\ UNCHANGED <<store, k, depth, fetch_k, adjacent_k, lambda_mult,
                 score_threshold, initial_roots, outgoing_tags, visited_tags,
                 depths, candidates, selected_ids, iter, seeds, adj_queries,
                 root_adjacents, adjacent_tags>>
  /\ UNCHANGED notMmr

AtDepths == mpc = "depths" \/ (AtFetchInitial /\ fetch_k = 0)

\* depths = {candidate_id: 0 for candidate_id in helper.candidate_ids()}
InitDepths ==
  /\ AtDepths
  /\ depths' = [n \in DOMAIN candidates |-> 0]
  /\ seeds' = DOMAIN candidates
  /\ mpc' = "loop"
  /\ UNCHANGED <<store, k, depth, fetch_k, adjacent_k, lambda_mult,
                 score_threshold, initial_roots, outgoing_tags, visited_tags,
                 candidates, selected_ids, iter, adj_queries, root_adjacents, adjacent_tags,
                 ann_queries>>
  /\ UNCHANGED notMmr

\* faulty variant: one iteration too many
LoopContinuesOffByOne == iter <= k

\* for _ in range(k)
LoopContinues == iter < k

\* faulty variant: the selected node is expanded whatever its depth
WithinDepthAlways(next_depth) == TRUE

\* if next_depth < depth
WithinDepth(next_depth) == next_depth < depth

\* faulty variant: a missing depth counts as 0, so a new target gets none
UpdateDepthsDefaultZero(dmap, targets, next_depth) ==
  LET shorter == {n \in targets :
                    next_depth < (IF n \in DOMAIN dmap THEN dmap[n] ELSE 0)}
  IN [n \in DOMAIN dmap \cup shorter |->
        IF n \in shorter THEN next_depth ELSE dmap[n]]

\* depths after the adjacents of a selected node are recorded
UpdateDepths(dmap, targets, next_depth) ==
  LET shorter == {n \in targets :
                    next_depth < (IF n \in DOMAIN dmap THEN dmap[n]
                                  ELSE depth + 1)}
  IN [n \in DOMAIN dmap \cup shorter |->
        IF n \in shorter THEN next_depth ELSE dmap[n]]

\* one iteration of the selection loop in which pop_best returns an id, up
\* to its wait: when the next depth is within the limit the tags of the
\* selected node are popped from outgoing_tags, and _get_adjacent submits an
\* adjacency query for each tag not yet visited and waits for its scope
SelectNext ==
  /\ mpc = "loop"
  /\ LoopContinues
  /\ ~PopBestNone(candidates)
  /\ \E selected_id \in BestIds(candidates) :
       LET link_to_tags == outgoing_tags[selected_id] \ visited_tags
           next_depth == depths[selected_id] + 1
       IN /\ selected_ids' = Append(selected_ids, selected_id)
          /\ candidates' = UpdateForSelection(
                              PoolWithout(candidates, selected_id),
                              candidates[selected_id].embedding)
          /\ IF WithinDepth(next_depth)
               THEN /\ outgoing_tags' =
                         [n \in DOMAIN outgoing_tags \ {selected_id}
                            |-> outgoing_tags[n]]
                    /\ adjacent_tags' = link_to_tags
                    /\ adj_queries' = LogAdjacent(selected_id, link_to_tags,
                                                  adjacent_k)
                    /\ mpc' = "adjacent"
               ELSE UNCHANGED <<outgoing_tags, adjacent_tags, adj_queries, mpc>>
  /\ iter' = iter + 1
  /\ UNCHANGED <<store, k, depth, fetch_k, adjacent_k, lambda_mult,
                 score_threshold, initial_roots, visited_tags, depths, seeds,
                 root_adjacents, ann_queries>>
  /\ UNCHANGED notMmr

\* the scope of _get_adjacent has drained: the tags are recorded as visited,
\* and the targets not in outgoing_tags are recorded, get their depth and are
\* handed to helper.add_candidates
SelectAdjacents ==
  /\ mpc = "adjacent"
  /\ LET selected_id == selected_ids[Len(selected_ids)]
         next_depth == depths[selected_id] + 1
     IN \E adjacents \in GetAdjacent(adjacent_tags, adjacent_k) :
          LET fresh == adjacents \ DOMAIN outgoing_tags
          IN /\ visited_tags' = visited_tags \cup adjacent_tags
             /\ outgoing_tags' = RecordTargets(outgoing_tags, fresh)
             /\ depths' = UpdateDepths(depths, fresh, next_depth)
             /\ candidates' = AddCandidates(candidates, selected_ids, fresh)
  /\ adjacent_tags' = {}
  /\ mpc' = "loop"
  /\ UNCHANGED <<store, k, depth, fetch_k, adjacent_k, lambda_mult,
                 score_threshold, initial_roots, selected_ids, iter, seeds,
                 adj_queries, root_adjacents, ann_queries>>
  /\ UNCHANGED notMmr

\* the loop ends: k iterations done, or pop_best returned None (break);
\* the call goes on with self._nodes_with_ids(helper.selected_ids)
LoopExit ==
  /\ mpc = "loop"
  /\ ~LoopContinues \/ PopBestNone(candidates)
  /\ mpc' = "done"
  /\ fpc' = "loop"
  /\ ids' = selected_ids
  /\ UNCHANGED <<store, k, depth, fetch_k, adjacent_k, lambda_mult,
                 score_threshold, initial_roots, outgoing_tags, visited_tags,
                 depths, candidates, selected_ids, iter, seeds, adj_queries,
                 root_adjacents, adjacent_tags, ann_queries>>
  /\ UNCHANGED <<next_index, results, returned, completed>>
  /\ UNCHANGED <<travOnly, searchOnly, ckOnly, addOnly, schedOnly, putOnly>>


(***************************************************************************)
(* Properties of GraphStore.mmr_traversal_search                           *)
(***************************************************************************)
\* an edge n -> m exists when n's outgoing tags meet m's incoming tags
Successors(S) ==
  {m \in NodeIds : \E n \in S :
     store[n].link_to_tags \cap store[m].link_from_tags # {}}

RECURSIVE ReachWithin(_, _)
\* the nodes at most `hops` edges away from a node of S (none if hops < 0)
ReachWithin(S, hops) ==
  IF hops < 0 THEN {}
  ELSE IF hops = 0 THEN S
  ELSE LET R == ReachWithin(S, hops - 1) IN R \cup Successors(R)

Selected == {selected_ids[i] : i \in 1..Len(selected_ids)}

\* C1: at most k ids are selected, and fewer than k only when, at the next
\* pick, the pool is empty or the best remaining score is below the threshold.
C1_SelectionCountBound ==
  /\ Len(selected_ids) <= k
  /\ (mpc = "done" /\ Len(selected_ids) < k) =>
       \/ DOMAIN candidates = {}
       \/ \A n \in DOMAIN candidates :
            score_threshold.finite
              /\ candidates[n].score < score_threshold.value

\* the search stopped early, after a pick, on a candidate below the threshold
C1_Witness ==
  /\ mpc = "done"
  /\ Len(selected_ids) >= 1
  /\ Len(selected_ids) < k
  /\ DOMAIN candidates # {}

\* C2 (as claimed): the selected id sequence contains no id twice, also when
\* a node selected and expanded earlier (so removed from outgoing_tags) is
\* returned again by an adjacency query of a later selected node.
C2_NoDuplicateSelection ==
  \A i, j \in 1..Len(selected_ids) :
     i # j => selected_ids[i] # selected_ids[j]

\* C3: a node whose shortest hop distance from the initial candidates is
\* `depth` or more never is the source of an adjacency query.
C3_DepthRespected ==
  \A q \in BagToSet(adj_queries) :
     q.src # "roots" => q.src \in ReachWithin(seeds, depth - 1)

\* a selected node at distance >= depth with an outgoing tag not yet visited
\* was selected and issued no adjacency query
C3_Witness ==
  /\ mpc = "done"
  /\ \E n \in Selected :
       /\ n \notin ReachWithin(seeds, depth - 1)
       /\ store[n].link_to_tags \ visited_tags # {}
       /\ WithIncoming(CHOOSE t \in store[n].link_to_tags : TRUE) # {}

\* C4 (as claimed): with k=2, fetch_k=1, depth=1 and a tag link from the
\* similarity seed A to B (and to no other node), A is selected, then B.
C4_Scenario1Claim ==
  ( /\ mpc = "done"
    /\ k = 2 /\ fetch_k = 1 /\ depth = 1
    /\ initial_roots = {}
    /\ lambda_mult = 1
    /\ ~score_threshold.finite
    /\ store["A"].link_to_tags \cap store["B"].link_from_tags # {}
    /\ store["A"].link_to_tags \cap store["C"].link_from_tags = {}
    /\ store["A"].link_to_tags \cap store["A"].link_from_tags = {} )
  => selected_ids = <<"A", "B">>

\* C14 (as claimed): with fetch_k = 0 and initial roots, no similarity query is
\* issued and the pool before the first pick is the set of nodes returned by
\* the adjacency queries of the roots' outgoing tags, at most adjacent_k per
\* tag, without the roots.  (A node of Stores has at most one incoming tag, so
\* the nodes returned for a tag are the returned nodes carrying that tag.)
C14_RootsOnlyPool ==
  (mpc = "loop" /\ iter = 0 /\ fetch_k = 0 /\ initial_roots # {}) =>
    /\ ann_queries = 0
    /\ DOMAIN candidates = root_adjacents \ initial_roots
    /\ \A t \in GetOutgoingTags(initial_roots) :
         Cardinality(root_adjacents \cap WithIncoming(t)) <= adjacent_k

(***************************************************************************)
(* ConcurrentQueries: the scope of concurrent queries (concurrency.py is   *)
(* not part of the sources at hand; modelled from its specification).      *)
(***************************************************************************)
\* the concurrency limit N of a scope
Concurrency == 2

\* how many queries may fail in one run of the model
MaxFailures == 2

Query(op, arg, d) == [op |-> op, arg |-> arg, d |-> d]

\* the content ids of the node table (of the graph store, or of the
\* Cassandra knowledge store)
StoredIds == IF cpc = "unused" THEN DOMAIN store ELSE DOMAIN store.emb

\* the possible row sets of a query of traversal_search:
\*   ann  - traversal_query, ORDER BY text_embedding ANN OF ? LIMIT k
\*   adj  - visit_nodes_query, WHERE link_from_tags CONTAINS (kind, tag)
\*   byid - _query_ids_and_link_to_tags_by_id, WHERE content_id = ?
QueryRows(q) ==
  CASE q.op = "ann" -> TopSets(NodeIds, k)
    [] q.op = "adj" -> {WithIncoming(q.arg)}
    [] OTHER -> {{q.arg} \cap StoredIds}

\* faulty variant: the slot bound is not applied
CanIssueUnbounded == TRUE

\* a slot is free
CanIssue == BagCardinality(cq_inflight) < Concurrency

\* no query of the scope is waiting or in flight
Quiescent == cq_pending = 0

\* __exit__ raises the recorded error
ScopeRaises == cq_error # {}

\* faulty variant: the error of the latest failure replaces the recorded one
RecordErrorLatest(error, q) == {q}

\* the error recorded when query q fails: the first one is kept
RecordError(error, q) == IF error = {} THEN {q} ELSE error

\* faulty variant: the callback gets the rows of some query in flight
DeliveredRowsOfAny(q) == UNION {QueryRows(p) : p \in BagToSet(cq_inflight)}

\* the rows handed to the callback of q
DeliveredRows(q) == QueryRows(q)

(***************************************************************************)
(* GraphStore.traversal_search                                             *)
(***************************************************************************)
Get(map, key, default) == IF key \in DOMAIN map THEN map[key] ELSE default

\* faulty variant: a node met at the depth limit is not recorded
NodeIsCloserStrict(d, content_id) == d < Get(visited_ids, content_id, depth)

\* if d <= visited_ids.get(content_id, depth)
NodeIsCloser(d, content_id) == d <= Get(visited_ids, content_id, depth)

\* faulty variant: traversal stops one hop early
CanContinueOffByOne(d) == d + 1 < depth

\* faulty variant: a node at the depth limit is expanded too
CanContinueAtLimit(d) == d <= depth

\* if d < depth (and node.link_to_tags)
CanContinue(d) == d < depth

\* if d <= visited_tags.get((kind, value), depth)
TagIsCloser(d, tag) == d <= Get(visited_tags, tag, depth)

\* if d < visited_ids.get(content_id, depth)
TargetIsNew(d, content_id) == d < Get(visited_ids, content_id, depth)

RECURSIVE InRowOrder(_)
\* the rows of a result in the order the store returns them: nearest to the
\* query first (a point lookup has one row at most)
InRowOrder(S) ==
  IF S = {} THEN << >>
  ELSE LET n == CHOOSE x \in S : \A y \in S :
                  CosSim(QueryEmbedding, store[x].text_embedding)
                    >= CosSim(QueryEmbedding, store[y].text_embedding)
       IN <<n>> \o InRowOrder(S \ {n})

\* visit_nodes(d, nodes): the new maps and the adjacency queries to submit
VisitNodes(d, nodes) ==
  LET hit == {n \in nodes : NodeIsCloser(d, n)}
      outgoing_tags_d ==
        IF CanContinue(d)
          THEN {t \in UNION {store[n].link_to_tags : n \in hit} :
                  TagIsCloser(d, t)}
          ELSE {}
  IN [visited_ids |-> [n \in DOMAIN visited_ids \cup hit |->
                         IF n \in hit THEN d ELSE visited_ids[n]],
      visit_order |-> visit_order \o InRowOrder(hit \ DOMAIN visited_ids),
      visited_tags |-> [t \in DOMAIN visited_tags \cup outgoing_tags_d |->
                          IF t \in outgoing_tags_d THEN d ELSE visited_tags[t]],
      queries |-> {Query("adj", t, d) : t \in outgoing_tags_d}]

\* visit_targets(d, targets): the point lookups to submit; their callback is
\* visit_nodes(d + 1, rows)
VisitTargets(d, targets) ==
  [visited_ids |-> visited_ids,
   visit_order |-> visit_order,
   visited_tags |-> visited_tags,
   queries |-> {Query("byid", n, d + 1) : n \in {m \in targets : TargetIsNew(d, m)}}]

\* the callback registered with a query
Callback(q, rows) ==
  IF q.op = "adj" THEN VisitTargets(q.d, rows) ELSE VisitNodes(q.d, rows)

TravInit ==
  /\ store \in TravStores
  /\ k \in 1..TravMaxK
  /\ depth \in 0..TravMaxDepth
  /\ tpc = "start"
  /\ visited_ids = << >>
  /\ visit_order = << >>
  /\ visited_tags = << >>
  /\ seeds = {}
  /\ result = {}
  /\ cq_queue = EmptyBag
  /\ cq_inflight = EmptyBag
  /\ cq_pending = 0
  /\ cq_error = {}
  /\ submitted = EmptyBag
  /\ called = EmptyBag
  /\ failed = << >>
  /\ corrected = FALSE
  /\ mpc = "unused"
  /\ fetch_k = 0
  /\ adjacent_k = 0
  /\ lambda_mult = 1
  /\ score_threshold = NegInf
  /\ initial_roots = {}
  /\ outgoing_tags = << >>
  /\ depths = << >>
  /\ candidates = << >>
  /\ selected_ids = << >>
  /\ iter = 0
  /\ adj_queries = EmptyBag
  /\ root_adjacents = {}
  /\ adjacent_tags = {}
  /\ ann_queries = 0
  /\ FetchIdle /\ SearchIdle /\ CkIdle /\ AddIdle
  /\ SchedIdle
  /\ PutIdle

\* cq.execute(traversal_query, ..., callback=lambda nodes: visit_nodes(0, nodes))
TravStart ==
  /\ tpc = "start"
  /\ tpc' = "scope"
  /\ cq_queue' = cq_queue (+) SetToBag({Query("ann", "", 0)})
  /\ submitted' = submitted (+) SetToBag({Query("ann", "", 0)})
  /\ cq_pending' = cq_pending + 1
  /\ UNCHANGED <<store, sharedVars, visited_ids, visit_order, result, cq_inflight, cq_error,
                 called, failed, corrected>>
  /\ UNCHANGED notTrav

\* a waiting query gets a slot and is sent to the store
CqIssue ==
  /\ CanIssue
  /\ \E q \in BagToSet(cq_queue) :
       /\ cq_queue' = cq_queue (-) SetToBag({q})
       /\ cq_inflight' = cq_inflight (+) SetToBag({q})
  /\ UNCHANGED <<store, sharedVars, tpc, visited_ids, visit_order, result, cq_pending,
                 cq_error, submitted, called, failed, corrected>>
  /\ UNCHANGED notTrav

\* a query in flight completes: its callback runs, then its slot is freed
CqComplete ==
  /\ tpc = "scope"
  /\ \E q \in BagToSet(cq_inflight) : \E rows \in DeliveredRows(q) :
       LET cb == Callback(q, rows)
       IN /\ visited_ids' = cb.visited_ids
          /\ visit_order' = cb.visit_order
          /\ visited_tags' = cb.visited_tags
          /\ seeds' = IF q.op = "ann" THEN rows ELSE seeds
          /\ cq_inflight' = cq_inflight (-) SetToBag({q})
          /\ cq_queue' = cq_queue (+) SetToBag(cb.queries)
          /\ submitted' = submitted (+) SetToBag(cb.queries)
          /\ cq_pending' = cq_pending - 1 + Cardinality(cb.queries)
          /\ called' = called (+) SetToBag({[query |-> q, rows |-> rows]})
          /\ corrected' = (corrected \/ \E n \in DOMAIN visited_ids :
                                          cb.visited_ids[n] < visited_ids[n])
  /\ UNCHANGED <<store, k, depth, tpc, result, cq_error, failed>>
  /\ UNCHANGED notTrav

\* a query in flight fails: no callback, the first error is kept
CqFail ==
  /\ Len(failed) < MaxFailures
  /\ \E q \in BagToSet(cq_inflight) :
       /\ cq_inflight' = cq_inflight (-) SetToBag({q})
       /\ failed' = Append(failed, q)
       /\ cq_error' = RecordError(cq_error, q)
  /\ cq_pending' = cq_pending - 1
  /\ UNCHANGED <<store, sharedVars, tpc, visited_ids, visit_order, result, cq_queue,
                 submitted, called, corrected>>
  /\ UNCHANGED notTrav

\* the end of `with self._concurrent_queries() as cq:`
TravExit ==
  /\ tpc = "scope"
  /\ Quiescent
  /\ tpc' = IF ScopeRaises THEN "raised" ELSE "exited"
  /\ UNCHANGED <<store, sharedVars, visited_ids, visit_order, result, cq_queue, cq_inflight,
                 cq_pending, cq_error, submitted, called, failed, corrected>>
  /\ UNCHANGED notTrav

\* faulty variant: the hydration is inside the with block
AtHydrationInScope == tpc = "scope"

\* return self._nodes_with_ids(visited_ids.keys()) follows the with block
AtHydration == tpc = "exited"

\* self._nodes_with_ids(visited_ids.keys()) is called: the ids are the keys
\* of visited_ids in insertion order, looked up in a query scope of its own
TravReturn ==
  /\ AtHydration
  /\ fpc = "unused"
  /\ tpc' = "hydrate"
  /\ fpc' = "loop"
  /\ ids' = visit_order
  /\ UNCHANGED <<store, sharedVars, visited_ids, visit_order, result, cq_queue,
                 cq_inflight, cq_pending, cq_error, submitted, called, failed,
                 corrected>>
  /\ UNCHANGED <<next_index, returned, results, completed>>
  /\ UNCHANGED <<mmrOnly, searchOnly, ckOnly, addOnly, schedOnly, putOnly>>


(***************************************************************************)
(* Properties of GraphStore.traversal_search and of the query scope        *)
(***************************************************************************)
RECURSIVE DistanceFrom(_, _, _)
DistanceFrom(S, n, hops) ==
  IF n \in ReachWithin(S, hops) THEN hops
  ELSE IF hops >= Cardinality(NodeIds) THEN -1
  ELSE DistanceFrom(S, n, hops + 1)

\* the least number of hops from a node of S to n (-1: unreachable)
HopDistance(S, n) == DistanceFrom(S, n, 0)

\* C5: traversal_search returns exactly the nodes reachable from the similarity
\* seeds in at most `depth` tag-adjacency hops, whatever the completion order.
C5_TraversalReachable ==
  tpc = "done" => result = ReachWithin(seeds, depth)

\* a traversal from a single seed returned a node two hops away
C5_Witness ==
  /\ tpc = "done"
  /\ k = 1
  /\ \E n \in result : n \notin ReachWithin(seeds, 1)

\* C6 (as claimed): when the scope has drained (no query failed), the depth
\* recorded for every visited node is its least number of hops from a seed,
\* whatever the order in which the callbacks ran.
C6_ShortestDepth ==
  tpc \in {"exited", "hydrate", "done"} =>
    \A n \in DOMAIN visited_ids : visited_ids[n] = HopDistance(seeds, n)

\* a query of the traversal (not a lookup of the hydration)
OfTraversal(q) == q.op \in {"ann", "adj"} \/ q.d >= 1

\* C7: from the moment the scope has exited no query of the traversal is
\* waiting or in flight (the hydration that follows runs its lookups in a
\* scope of its own), and visited_ids does not change any more.
C7_ScopeDrainedAtHydration ==
  /\ [](tpc \in {"exited", "hydrate", "done"} =>
          \A q \in BagToSet(cq_queue) \cup BagToSet(cq_inflight) :
             ~OfTraversal(q))
  /\ [](tpc \in {"exited", "done"} =>
          cq_queue = EmptyBag /\ cq_inflight = EmptyBag)
  /\ [][(tpc \in {"exited", "hydrate", "done"})
          => (visited_ids' = visited_ids)]_vars

\* the scope exited after queries submitted from callbacks of queries that
\* were themselves submitted from callbacks, and the lookups of the
\* hydration are in flight
C7_Witness ==
  /\ tpc = "hydrate"
  /\ cq_inflight # EmptyBag
  /\ \E c \in BagToSet(called) : c.query.op = "byid" /\ c.query.d >= 2

\* C8: when queries failed, the scope raises the error of the first failure,
\* once nothing is waiting or in flight, and the traversal returns no node
\* set.
C8_ErrorSurfaced ==
  Len(failed) > 0 =>
    /\ tpc \notin {"exited", "done"}
    /\ result = {}
    /\ tpc = "raised" =>
         /\ cq_error = {failed[1]}
         /\ cq_queue = EmptyBag /\ cq_inflight = EmptyBag

\* the scope raised after two different queries failed while part of the
\* graph had been visited
C8_Witness ==
  /\ tpc = "raised"
  /\ Len(failed) = 2
  /\ failed[1] # failed[2]
  /\ \E n \in DOMAIN visited_ids : visited_ids[n] > 0

\* C9: at most N queries are in flight, queries submitted from callbacks
\* included.
C9_ConcurrencyBound == BagCardinality(cq_inflight) <= Concurrency

\* N queries are in flight while a query submitted from a callback waits
C9_Witness ==
  /\ BagCardinality(cq_inflight) = Concurrency
  /\ cq_queue # EmptyBag

\* how often q occurs in the sequence s
CountIn(s, q) == Cardinality({i \in DOMAIN s : s[i] = q})

\* the number of callback invocations, among the invocations C, for query q
CallsAmong(C, q) ==
  BagCardinality([c \in {x \in C : x.query = q} |-> called[c]])

\* C10: every callback invocation carries the rows of its own query, and every
\* submitted query is waiting, in flight, failed, or was called back once.
C10_CallbackExactlyOnce ==
  /\ \A c \in BagToSet(called) : c.rows \in QueryRows(c.query)
  /\ \A q \in BagToSet(submitted) :
       CopiesIn(q, submitted) =
         CopiesIn(q, cq_queue) + CopiesIn(q, cq_inflight) + CountIn(failed, q)
           + CallsAmong(BagToSet(called), q)

\* the scope drained without failure after the same query had been submitted
\* twice, each submission with its own callback invocation
C10_Witness ==
  /\ tpc = "exited"
  /\ \E q \in BagToSet(submitted) :
       /\ CopiesIn(q, submitted) >= 2
       /\ CallsAmong(BagToSet(called), q) = CopiesIn(q, submitted)

(***************************************************************************)
(* GraphStore._nodes_with_ids and GraphStore.get_node                      *)
(***************************************************************************)
\* bound on the number of requested ids
MaxIds == 3

\* the ids a caller may ask for: "Z" was never inserted
RequestIds == {"A", "B", "Z"}

\* the sequences over S of length n
SeqsOfLen(S, n) == [1..n -> S]

\* the sequences over S of length at most n
SeqsUpTo(S, n) == UNION {SeqsOfLen(S, m) : m \in 0..n}

\* the store of the lookups: the three nodes, without tags
PlainStore ==
  [n \in NodeIds |-> [text_embedding |-> FixedEmbedding[n],
                      link_to_tags |-> {}, link_from_tags |-> {}]]

\* results[node_id] = None
NoNode == [id |-> "None", text_embedding |-> << >>]

\* _row_to_node(row)
RowToNode(n) == [id |-> n, text_embedding |-> store[n].text_embedding]

\* faulty variant: every occurrence of an id is looked up
NeedsLookupAlways(res, node_id) == TRUE

\* if node_id not in results
NeedsLookup(res, node_id) == node_id \notin DOMAIN res

\* node_callback(rows): results[row.content_id] = _row_to_node(row)
NodeCallback(res, rows) ==
  [n \in DOMAIN res \cup rows |-> IF n \in rows THEN RowToNode(n) ELSE res[n]]

RECURSIVE FoundOnly(_, _)
\* the nodes of the requested ids that were found, in input order
FoundOnly(res, id_seq) ==
  IF id_seq = << >> THEN << >>
  ELSE (IF res[Head(id_seq)] = NoNode THEN << >> ELSE <<res[Head(id_seq)]>>)
         \o FoundOnly(res, Tail(id_seq))

\* faulty variant: an id without a node is left out of the list
GetResultsOmitting(res, id_seq) ==
  [raised |-> FALSE, nodes |-> FoundOnly(res, id_seq)]

\* [get_result(node_id) for node_id in ids]: raises ValueError for an id
\* whose result is None
GetResults(res, id_seq) ==
  IF \E i \in 1..Len(id_seq) : res[id_seq[i]] = NoNode
    THEN [raised |-> TRUE, nodes |-> << >>]
    ELSE [raised |-> FALSE, nodes |-> [i \in 1..Len(id_seq) |-> res[id_seq[i]]]]

NwiInit ==
  /\ store = PlainStore
  /\ fpc = "loop"
  /\ ids \in SeqsUpTo(RequestIds, MaxIds)
  /\ next_index = 0
  /\ results = << >>
  /\ returned = << >>
  /\ completed = << >>
  /\ EngineIdle /\ TravIdle /\ MmrIdle /\ SharedIdle
  /\ SearchIdle /\ CkIdle /\ AddIdle
  /\ SchedIdle
  /\ PutIdle

\* one iteration of `for node_id in ids`
NwiSubmit ==
  /\ fpc = "loop"
  /\ next_index < Len(ids)
  /\ next_index' = next_index + 1
  /\ LET node_id == ids[next_index + 1]
         q == Query("byid", node_id, 0)
     IN IF NeedsLookup(results, node_id)
          THEN /\ results' = [n \in DOMAIN results \cup {node_id} |->
                                IF n = node_id THEN NoNode ELSE results[n]]
               /\ cq_queue' = cq_queue (+) SetToBag({q})
               /\ submitted' = submitted (+) SetToBag({q})
               /\ cq_pending' = cq_pending + 1
          ELSE UNCHANGED <<results, cq_queue, submitted, cq_pending>>
  /\ UNCHANGED <<fpc, ids, returned, completed, cq_inflight, cq_error, called,
                 failed>>
  /\ UNCHANGED notFetch

\* a point lookup completes: node_callback runs, then its slot is freed
NwiComplete ==
  /\ fpc = "loop"
  /\ \E q \in BagToSet(cq_inflight) : \E rows \in DeliveredRows(q) :
       /\ results' = NodeCallback(results, rows)
       /\ completed' = Append(completed, q.arg)
       /\ cq_inflight' = cq_inflight (-) SetToBag({q})
       /\ called' = called (+) SetToBag({[query |-> q, rows |-> rows]})
  /\ cq_pending' = cq_pending - 1
  /\ UNCHANGED <<fpc, ids, next_index, returned, cq_queue, cq_error, submitted,
                 failed>>
  /\ UNCHANGED notFetch

\* the end of `with self._concurrent_queries() as cq:`
NwiExit ==
  /\ fpc = "loop"
  /\ next_index = Len(ids)
  /\ Quiescent
  /\ fpc' = IF ScopeRaises THEN "raised" ELSE "exited"
  /\ UNCHANGED <<ids, next_index, results, returned, completed>>
  /\ UNCHANGED <<cq_queue, cq_inflight, cq_pending, cq_error, submitted, called,
                 failed>>
  /\ UNCHANGED notFetch

\* return [get_result(node_id) for node_id in ids]
NwiReturn ==
  /\ fpc = "exited"
  /\ LET r == GetResults(results, ids)
     IN /\ fpc' = IF r.raised THEN "not_found" ELSE "done"
        /\ returned' = r.nodes
  /\ UNCHANGED <<ids, next_index, results, completed>>
  /\ UNCHANGED <<cq_queue, cq_inflight, cq_pending, cq_error, submitted, called,
                 failed>>
  /\ UNCHANGED notFetch

NwiNext == NwiSubmit \/ CqIssue \/ NwiComplete \/ CqFail \/ NwiExit
             \/ NwiReturn

SpecNwi == NwiInit /\ [][NwiNext]_vars

(***************************************************************************)
(* GraphStore.mmr_traversal_search, whole: the search and the lookup of    *)
(* the selected ids that makes its result                                  *)
(***************************************************************************)
\* the list of line 679 is handed to the caller
TravDone ==
  /\ tpc = "hydrate"
  /\ fpc = "done"
  /\ tpc' = "done"
  /\ result' = {returned[i].id : i \in 1..Len(returned)}
  /\ UNCHANGED <<store, sharedVars, visited_ids, visit_order, cq_queue,
                 cq_inflight, cq_pending, cq_error, submitted, called, failed,
                 corrected>>
  /\ UNCHANGED notTrav

\* the traversal, then the lookup of the visited ids
TravNext == TravStart \/ CqIssue \/ CqComplete \/ CqFail \/ TravExit
              \/ TravReturn
              \/ NwiSubmit \/ NwiComplete \/ NwiExit \/ NwiReturn \/ TravDone

SpecTrav == TravInit /\ [][TravNext]_vars

\* the search, then the lookup of the selected ids
MmrNext == FetchNeighborhood \/ NeighborhoodTags \/ NeighborhoodAdjacents
             \/ FetchInitialCandidates \/ FetchInitialRaises \/ InitDepths
             \/ SelectNext \/ SelectAdjacents \/ MmrScopeRaises \/ LoopExit
             \/ NwiSubmit \/ CqIssue \/ NwiComplete \/ CqFail \/ NwiExit
             \/ NwiReturn

SpecMmr == MmrInit /\ [][MmrNext]_vars

(***************************************************************************)
(* Properties of GraphStore._nodes_with_ids                                *)
(***************************************************************************)
IdsRequested == {ids[i] : i \in 1..Len(ids)}

\* C11: the returned list has the node of the i-th id at position i, whatever
\* the completion order, and each distinct id is looked up exactly once.
C11_InputOrderOneLookup ==
  /\ fpc = "done" =>
       /\ Len(returned) = Len(ids)
       /\ \A i \in 1..Len(ids) : returned[i] = RowToNode(ids[i])
  /\ \A q \in BagToSet(submitted) : CopiesIn(q, submitted) = 1
  /\ fpc # "loop" =>
       {q.arg : q \in BagToSet(submitted)} = IdsRequested

\* a list with a repeated id was returned after the lookups completed in an
\* order other than the input order
C11_Witness ==
  /\ fpc = "done"
  /\ Len(ids) = 3
  /\ ids[1] = ids[3]
  /\ ids[1] # ids[2]
  /\ completed = <<ids[2], ids[1]>>

\* C12: when a requested id was never inserted, the call does not return a
\* list: once the scope has exited it fails with the not-found error.
C12_MissingIdFails ==
  (\E i \in 1..Len(ids) : ids[i] \notin NodeIds) =>
    /\ fpc # "done"
    /\ returned = << >>
    /\ fpc \in {"loop", "raised", "exited", "not_found"}

\* the call failed with the not-found error although another requested id was
\* found
C12_Witness ==
  /\ fpc = "not_found"
  /\ \E n \in DOMAIN results : results[n] # NoNode

(***************************************************************************)
(* The entry of the searches of GraphStore that take a metadata filter:    *)
(* what each does, in order, up to its first storage query.                *)
(***************************************************************************)
MetadataKeys == {"a", "b"}

IndexingModes == {"DEFAULT_TO_SEARCHABLE", "DEFAULT_TO_UNSEARCHABLE"}

SearchOps == {"similarity_search", "metadata_search", "traversal_search",
              "mmr_traversal_search"}

\* _is_metadata_field_indexed(field_name, policy)
IsMetadataFieldIndexed(field_name, p) ==
  IF p.mode = "DEFAULT_TO_UNSEARCHABLE" THEN field_name \in p.fields
  ELSE field_name \notin p.fields

\* _extract_where_clause_cql and _extract_where_clause_params raise ValueError
\* for a key that is not indexed
WhereClauseRaises(keys, p) ==
  \E key \in keys : ~IsMetadataFieldIndexed(key, p)

\* how many searches are called on one GraphStore
MaxCalls == 2

\* the steps of a search up to its first storage query:
\*   embed   - self._embedding.embed_query(query)
\*   cql     - self._get_search_cql(...): where clause, then the statement
\*             from the cache, or session.prepare
\*   params  - self._get_search_params(...): where clause parameters
\*   execute - the first query is sent to the store
SearchSteps(o) ==
  CASE o = "mmr_traversal_search" -> <<"embed", "cql", "cql", "params", "execute">>
    [] o = "traversal_search" -> <<"cql", "cql", "embed", "params", "execute">>
    [] OTHER -> <<"cql", "params", "execute">>

\* the step the search is at
SearchAt(step) ==
  /\ spc.status = "running"
  /\ SearchSteps(search_op)[spc.at] = step

\* select_cql, the text made by SELECT_CQL_TEMPLATE.format(...): its columns,
\* the keys of its where clause (in sorted order), and its other clauses
SelectCql(columns, keys, has_embedding, has_link_from_tags, has_limit) ==
  [columns |-> columns, metadata_keys |-> keys,
   has_embedding |-> has_embedding, has_link_from_tags |-> has_link_from_tags,
   has_limit |-> has_limit]

\* how many calls of _get_search_cql the search has finished
CqlCallsDone ==
  Cardinality({i \in 1..(spc.at - 1) : SearchSteps(search_op)[i] = "cql"})

\* the text of the statement the search asks for at its "cql" step
SearchSelectCql ==
  CASE search_op = "similarity_search" ->
         SelectCql("content", metadata_filter, TRUE, FALSE, TRUE)
    [] search_op = "metadata_search" ->
         SelectCql("content", metadata_filter, FALSE, FALSE, TRUE)
    [] search_op = "traversal_search" /\ CqlCallsDone = 0 ->
         SelectCql("content_id, link_to_tags", metadata_filter,
                   TRUE, FALSE, TRUE)
    [] search_op = "traversal_search" ->
         SelectCql("content_id AS target_content_id", metadata_filter,
                   FALSE, TRUE, FALSE)
    [] search_op = "mmr_traversal_search" /\ CqlCallsDone = 0 ->
         SelectCql("content_id, text_embedding, link_to_tags", metadata_filter,
                   TRUE, TRUE, TRUE)
    [] OTHER ->
         SelectCql("content_id, text_embedding, link_to_tags", metadata_filter,
                   TRUE, FALSE, TRUE)

\* the first search on a new GraphStore
SearchInit ==
  /\ store = PlainStore
  /\ spc = [at |-> 1, status |-> "running"]
  /\ search_op \in SearchOps
  /\ metadata_filter \in SUBSET MetadataKeys
  /\ policy \in [mode : IndexingModes, fields : SUBSET MetadataKeys]
  /\ io_log = << >>
  /\ prepared_query_cache = {}
  /\ search_calls = 1
  /\ EngineIdle /\ TravIdle /\ MmrIdle /\ SharedIdle
  /\ FetchIdle /\ CkIdle /\ AddIdle
  /\ SchedIdle
  /\ PutIdle

\* query_embedding = self._embedding.embed_query(query)
SearchEmbed ==
  /\ SearchAt("embed")
  /\ io_log' = Append(io_log, "embed_query")
  /\ spc' = [spc EXCEPT !.at = spc.at + 1]
  /\ UNCHANGED <<search_op, metadata_filter, policy, prepared_query_cache,
                 search_calls>>
  /\ UNCHANGED notSearch

\* self._get_search_cql(metadata_keys=list(metadata_filter.keys()), ...):
\* the where clause raises, or the statement of the text is taken from the
\* cache, or session.prepare is called and its statement is cached
SearchCql ==
  /\ SearchAt("cql")
  /\ IF WhereClauseRaises(metadata_filter, policy)
       THEN /\ spc' = [spc EXCEPT !.status = "rejected"]
            /\ UNCHANGED <<io_log, prepared_query_cache>>
       ELSE /\ spc' = [spc EXCEPT !.at = spc.at + 1]
            /\ IF SearchSelectCql \in prepared_query_cache
                 THEN UNCHANGED <<io_log, prepared_query_cache>>
                 ELSE /\ io_log' = Append(io_log, "prepare")
                      /\ prepared_query_cache' =
                           prepared_query_cache \cup {SearchSelectCql}
  /\ UNCHANGED <<search_op, metadata_filter, policy, search_calls>>
  /\ UNCHANGED notSearch

\* self._get_search_params(metadata=metadata_filter, ...)
SearchParams ==
  /\ SearchAt("params")
  /\ spc' = IF WhereClauseRaises(metadata_filter, policy)
              THEN [spc EXCEPT !.status = "rejected"]
              ELSE [spc EXCEPT !.at = spc.at + 1]
  /\ UNCHANGED <<search_op, metadata_filter, policy, io_log,
                 prepared_query_cache, search_calls>>
  /\ UNCHANGED notSearch

\* the first query of the search is sent to the store
SearchExecute ==
  /\ SearchAt("execute")
  /\ io_log' = Append(io_log, "execute")
  /\ spc' = [spc EXCEPT !.status = "querying"]
  /\ UNCHANGED <<search_op, metadata_filter, policy, prepared_query_cache,
                 search_calls>>
  /\ UNCHANGED notSearch

\* the search has ended and another one is called on the same GraphStore:
\* the indexing policy and the cache of prepared statements stay
SearchAgain ==
  /\ spc.status \in {"rejected", "querying"}
  /\ search_calls < MaxCalls
  /\ search_calls' = search_calls + 1
  /\ spc' = [at |-> 1, status |-> "running"]
  /\ search_op' \in SearchOps
  /\ metadata_filter' \in SUBSET MetadataKeys
  /\ io_log' = << >>
  /\ UNCHANGED <<policy, prepared_query_cache>>
  /\ UNCHANGED notSearch

SearchNext == SearchEmbed \/ SearchCql \/ SearchParams \/ SearchExecute
                \/ SearchAgain

SpecSearch == SearchInit /\ [][SearchNext]_vars

\* C13 (as claimed): a search whose filter names a non-indexed field is
\* rejected before any I/O: it never sends a query, and when it is rejected no
\* embedding-model call and no storage request has been made.
C13_RejectedBeforeIO ==
  WhereClauseRaises(metadata_filter, policy) =>
    /\ spc.status # "querying"
    /\ spc.status = "rejected" => io_log = << >>

(***************************************************************************)
(* CassandraKnowledgeStore.mmr_traversal_search (cassandra.py): nodes with *)
(* embeddings and an edge table (source_content_id, target_content_id).    *)
(***************************************************************************)
CkMaxK == 4

CkMaxDepth == 2

\* content ids in ascending order (the clustering order of the edge table)
CkOrder == <<"A", "B", "C", "D">>

CkIds == {CkOrder[i] : i \in 1..Len(CkOrder)}

IdRank(n) == CHOOSE i \in 1..Len(CkOrder) : CkOrder[i] = n

\* the embeddings of the nodes: with the query <<5, 0>>, similarities 25, 20, 0
\* and -15 (in 1/25), given to A, C, B, D, or to A, B, C, D, or B like C
CkEmbeddings ==
  { [n \in CkIds |-> CASE n = "A" -> <<5, 0>> [] n = "B" -> <<0, 5>>
                        [] n = "C" -> <<4, 3>> [] OTHER -> <<-3, 4>>],
    [n \in CkIds |-> CASE n = "A" -> <<5, 0>> [] n = "B" -> <<4, 3>>
                        [] n = "C" -> <<0, 5>> [] OTHER -> <<-3, 4>>],
    [n \in CkIds |-> CASE n = "A" -> <<5, 0>> [] n = "B" -> <<4, 3>>
                        [] n = "C" -> <<4, 3>> [] OTHER -> <<-3, 4>>] }

\* the rows the edge table may hold
CkEdges == {<<"A", "B">>, <<"B", "C">>, <<"C", "D">>, <<"A", "C">>, <<"C", "A">>}

\* a store without any node
EmptyCkStore == [emb |-> << >>, edges |-> {}]

CkStores ==
  {EmptyCkStore} \cup [emb : CkEmbeddings, edges : SUBSET CkEdges]

\* lambda_mult in halves: 0, 0.5, 1
CkLambdaNums == {0, 1, 2}

CkFetchKs == {0, 1, 3, 4}

\* similarity of a stored node to the query
SimToQuery(n) == CosSim(QueryEmbedding, store.emb[n])

\* ORDER BY text_embedding ANN OF ? LIMIT ?: the possible row sequences
AnnRows(limit) ==
  LET S == DOMAIN store.emb
      m == Min(limit, Cardinality(S))
  IN {r \in SeqsOfLen(S, m) :
        /\ \A i, j \in 1..m : i < j =>
              r[i] # r[j] /\ SimToQuery(r[i]) >= SimToQuery(r[j])
        /\ \A n \in S \ {r[i] : i \in 1..m} :
              \A i \in 1..m : SimToQuery(r[i]) >= SimToQuery(n)}

RECURSIVE TargetsFrom(_, _)
\* SELECT target_content_id ... WHERE source_content_id = ?: the targets of
\* the edges of a source from position i on, in clustering order
TargetsFrom(source, i) ==
  IF i > Len(CkOrder) THEN << >>
  ELSE (IF <<source, CkOrder[i]>> \in store.edges THEN <<CkOrder[i]>>
        ELSE << >>) \o TargetsFrom(source, i + 1)

EdgesBySource(source) == TargetsFrom(source, 1)

\* faulty variant: a new candidate starts with full redundancy
CandidateRedundantFromStart(n, embedding) ==
  [content_id |-> n,
   embedding |-> embedding,
   similarity_to_query |-> lambda_mult * CosSim(QueryEmbedding, embedding),
   redundancy |-> 50,
   score |-> lambda_mult * CosSim(QueryEmbedding, embedding) - 50,
   distance |-> 0]

\* _Candidate.__init__
Candidate(n, embedding) ==
  [content_id |-> n,
   embedding |-> embedding,
   similarity_to_query |-> lambda_mult * CosSim(QueryEmbedding, embedding),
   redundancy |-> 0,
   score |-> lambda_mult * CosSim(QueryEmbedding, embedding) - 0,
   distance |-> 0]

\* faulty variant: the factor of the redundancy is lambda, not 1 - lambda
SelectedRSimByLambda(c, selection_embedding) ==
  lambda_mult * CosSim(selection_embedding, c.embedding)

\* selected_r_sim = (1 - lambda_mult) * cosine_similarity(...)
SelectedRSim(c, selection_embedding) ==
  (2 - lambda_mult) * CosSim(selection_embedding, c.embedding)

\* faulty variant: the redundancy is overwritten by every selection
CandidateUpdateForLatest(c, selection_embedding) ==
  LET selected_r_sim == SelectedRSim(c, selection_embedding)
  IN [c EXCEPT !.redundancy = selected_r_sim,
               !.score = c.similarity_to_query - selected_r_sim]

\* _Candidate.update_for_selection
CandidateUpdateForSelection(c, selection_embedding) ==
  LET selected_r_sim == SelectedRSim(c, selection_embedding)
  IN IF selected_r_sim > c.redundancy
       THEN [c EXCEPT !.redundancy = selected_r_sim,
                      !.score = c.similarity_to_query - selected_r_sim]
       ELSE c

\* faulty variant: the comparison is reversed
ScoreBelow(score, best) == ~best.finite \/ score < best.value

\* candidate.score > best_score
ScoreAbove(score, best) == ~best.finite \/ score > best.value

\* best_score < score_threshold
BestBelowThreshold(best, threshold) ==
  IF ~best.finite THEN threshold.finite
  ELSE threshold.finite /\ best.value < threshold.value

\* max([(u.score, content_id) ...]): the greatest score, then the greatest id
MaxScoreAndId(cands) ==
  LET i == CHOOSE a \in 1..Len(cands) : \A b \in 1..Len(cands) :
             \/ cands[a].score > cands[b].score
             \/ /\ cands[a].score = cands[b].score
                /\ IdRank(cands[a].content_id) >= IdRank(cands[b].content_id)
  IN [best_score |-> [finite |-> TRUE, value |-> cands[i].score],
      next_id |-> cands[i].content_id]

RECURSIVE UpdateUnselected(_, _, _)
\* "Update unselected scores": every candidate from position i on is updated
\* for the selection; st carries the updated candidates and the best so far
UpdateUnselected(st, selected_embedding, i) ==
  IF i > Len(st.unselected) THEN st
  ELSE LET c == CandidateUpdateForSelection(st.unselected[i], selected_embedding)
           better == ScoreAbove(c.score, st.best_score)
       IN UpdateUnselected(
            [unselected |-> [st.unselected EXCEPT ![i] = c],
             best_score |-> IF better THEN [finite |-> TRUE, value |-> c.score]
                            ELSE st.best_score,
             next_id |-> IF better THEN c.content_id ELSE st.next_id],
            selected_embedding, i + 1)

\* faulty variant: a new candidate is updated for the latest selection only
ApplySelectionsLastOnly(c, selected, i) ==
  CandidateUpdateForSelection(c, store.emb[selected[Len(selected)]])

RECURSIVE ApplySelections(_, _, _)
\* for selected_embedding in selected_embeddings: adjacent.update_for_selection
ApplySelections(c, selected, i) ==
  IF i > Len(selected) THEN c
  ELSE ApplySelections(CandidateUpdateForSelection(c, store.emb[selected[i]]),
                       selected, i + 1)

\* position of an id among the candidates (0: absent)
PositionIn(cands, n) ==
  IF \E i \in 1..Len(cands) : cands[i].content_id = n
    THEN CHOOSE i \in 1..Len(cands) : cands[i].content_id = n
    ELSE 0

RECURSIVE AddAdjacentsAgain(_, _, _, _)
\* faulty variant: a target that is already in the pool is added once more
\* as a new candidate
AddAdjacentsAgain(st, targets, next_depth, selected) ==
  IF targets = << >> THEN st
  ELSE LET target_id == Head(targets)
       IN IF \E i \in 1..Len(selected) : selected[i] = target_id
            THEN AddAdjacentsAgain(st, Tail(targets), next_depth, selected)
          ELSE LET adjacent == Candidate(target_id, store.emb[target_id])
               IN AddAdjacentsAgain(
                    [st EXCEPT !.unselected = Append(@, adjacent)],
                    Tail(targets), next_depth, selected)

RECURSIVE AddAdjacents(_, _, _, _)
\* for row in adjacents: skip a selected target, lower the distance of a
\* pending one, add a new one
AddAdjacents(st, targets, next_depth, selected) ==
  IF targets = << >> THEN st
  ELSE LET target_id == Head(targets)
           at == PositionIn(st.unselected, target_id)
       IN IF \E i \in 1..Len(selected) : selected[i] = target_id
            THEN AddAdjacents(st, Tail(targets), next_depth, selected)
          ELSE IF at > 0
            THEN AddAdjacents(
                   [st EXCEPT !.unselected[at].distance =
                      IF next_depth < @ THEN next_depth ELSE @],
                   Tail(targets), next_depth, selected)
          ELSE LET adjacent == ApplySelections(
                                 Candidate(target_id, store.emb[target_id]),
                                 selected, 1)
                   better == ScoreAbove(adjacent.score, st.best_score)
               IN AddAdjacents(
                    [unselected |-> Append(st.unselected, adjacent),
                     best_score |-> IF better
                                      THEN [finite |-> TRUE, value |-> adjacent.score]
                                      ELSE st.best_score,
                     next_id |-> IF better THEN target_id ELSE st.next_id],
                    Tail(targets), next_depth, selected)

\* the candidates without the one at position i
WithoutAt(cands, i) ==
  [j \in 1..(Len(cands) - 1) |-> IF j < i THEN cands[j] ELSE cands[j + 1]]

CkInit ==
  /\ store \in CkStores
  /\ cpc = "start"
  /\ k \in 1..CkMaxK
  /\ depth \in 0..CkMaxDepth
  /\ fetch_k \in CkFetchKs
  /\ lambda_mult \in CkLambdaNums
  /\ score_threshold \in Thresholds
  /\ selected_ids = << >>
  /\ unselected = << >>
  /\ best_score = NegInf
  /\ next_id = "None"
  /\ expanded = {}
  /\ seeds = {}
  /\ visited_tags = {}
  /\ mpc = "unused"
  /\ adjacent_k = 0
  /\ initial_roots = {}
  /\ outgoing_tags = << >>
  /\ depths = << >>
  /\ candidates = << >>
  /\ iter = 0
  /\ adj_queries = EmptyBag
  /\ root_adjacents = {}
  /\ adjacent_tags = {}
  /\ ann_queries = 0
  /\ EngineIdle /\ TravIdle /\ FetchIdle /\ SearchIdle /\ AddIdle
  /\ SchedIdle
  /\ PutIdle

\* the similarity fetch, the candidates and the first max(...), which raises
\* ValueError on an empty list
CkFetch ==
  /\ cpc = "start"
  /\ \E fetched \in AnnRows(fetch_k) :
       LET cands == [i \in 1..Len(fetched) |->
                       Candidate(fetched[i], store.emb[fetched[i]])]
       IN /\ unselected' = cands
          /\ seeds' = {fetched[i] : i \in 1..Len(fetched)}
          /\ IF cands = << >>
               THEN /\ cpc' = "raised"
                    /\ UNCHANGED <<best_score, next_id>>
               ELSE /\ cpc' = "loop"
                    /\ best_score' = MaxScoreAndId(cands).best_score
                    /\ next_id' = MaxScoreAndId(cands).next_id
  /\ UNCHANGED <<store, k, depth, fetch_k, lambda_mult, score_threshold,
                 selected_ids, expanded>>
  /\ UNCHANGED notCk

\* while len(selected_ids) < k and next_id is not None, without the break
CkLoopContinues ==
  /\ Len(selected_ids) < k
  /\ next_id # "None"
  /\ ~BestBelowThreshold(best_score, score_threshold)

\* if next_depth < depth
CkWithinDepth(next_depth) == next_depth < depth

\* one iteration of the while loop
CkSelect ==
  /\ cpc = "loop"
  /\ CkLoopContinues
  /\ LET selected_id == next_id
         at == PositionIn(unselected, selected_id)
         next_selected == unselected[at]
         selected == Append(selected_ids, selected_id)
         updated == UpdateUnselected(
                      [unselected |-> WithoutAt(unselected, at),
                       best_score |-> NegInf, next_id |-> "None"],
                      next_selected.embedding, 1)
         next_depth == next_selected.distance + 1
         st == IF CkWithinDepth(next_depth)
                 THEN AddAdjacents(updated, EdgesBySource(selected_id),
                                   next_depth, selected)
                 ELSE updated
     IN /\ selected_ids' = selected
        /\ unselected' = st.unselected
        /\ best_score' = st.best_score
        /\ next_id' = st.next_id
        /\ expanded' = IF CkWithinDepth(next_depth)
                         THEN expanded \cup {selected_id} ELSE expanded
  /\ UNCHANGED <<store, cpc, k, depth, fetch_k, lambda_mult, score_threshold,
                 seeds>>
  /\ UNCHANGED notCk

\* the loop ends; return self._query_by_ids(selected_ids)
CkReturn ==
  /\ cpc = "loop"
  /\ ~CkLoopContinues
  /\ cpc' = "done"
  /\ fpc' = "loop"
  /\ ids' = selected_ids
  /\ UNCHANGED <<store, k, depth, fetch_k, lambda_mult, score_threshold,
                 selected_ids, seeds, unselected, best_score, next_id, expanded>>
  /\ UNCHANGED <<visited_tags, mpc, adjacent_k, initial_roots, outgoing_tags,
                 depths, candidates, iter, adj_queries, root_adjacents, adjacent_tags,
                 ann_queries>>
  /\ UNCHANGED <<next_index, results, returned, completed>>
  /\ UNCHANGED <<travOnly, searchOnly, addOnly, schedOnly, putOnly>>

(***************************************************************************)
(* Properties of CassandraKnowledgeStore.mmr_traversal_search              *)
(***************************************************************************)
CkSuccessors(S) == {m \in DOMAIN store.emb : \E n \in S : <<n, m>> \in store.edges}

RECURSIVE CkReachWithin(_, _)
\* the nodes at most `hops` edges away from a node of S (none if hops < 0)
CkReachWithin(S, hops) ==
  IF hops < 0 THEN {}
  ELSE IF hops = 0 THEN S
  ELSE LET R == CkReachWithin(S, hops - 1) IN R \cup CkSuccessors(R)

RECURSIVE CkDistanceFrom(_, _, _)
CkDistanceFrom(S, n, hops) ==
  IF n \in CkReachWithin(S, hops) THEN hops
  ELSE IF hops >= Len(CkOrder) THEN Len(CkOrder) + 1
  ELSE CkDistanceFrom(S, n, hops + 1)

\* the least number of edges from a node of S to n (more than the number of
\* nodes: unreachable)
CkHopDistance(S, n) == CkDistanceFrom(S, n, 0)

CkSelected == {selected_ids[i] : i \in 1..Len(selected_ids)}

UnselectedIds == {unselected[i].content_id : i \in 1..Len(unselected)}

\* no candidate was added by an expansion
PoolFixed == CkSelected \cup UnselectedIds = seeds

\* C15: with lambda_mult = 1 no candidate's redundancy or score ever changes,
\* and over a pool that stays the fetched one the picks are in descending
\* similarity to the query.
C15_PureSimilarityOrder ==
  (lambda_mult = 2 /\ cpc \in {"loop", "done"}) =>
    /\ \A i \in 1..Len(unselected) :
         /\ unselected[i].redundancy = 0
         /\ unselected[i].score = unselected[i].similarity_to_query
         /\ unselected[i].score = 2 * SimToQuery(unselected[i].content_id)
    /\ PoolFixed =>
         /\ \A i, j \in 1..Len(selected_ids) : i < j =>
              SimToQuery(selected_ids[i]) >= SimToQuery(selected_ids[j])
         /\ \A n \in CkSelected : \A m \in UnselectedIds :
              SimToQuery(n) >= SimToQuery(m)

\* three picks from the fetched pool in strictly descending similarity, the
\* second one similar to the first (it would be penalised with lambda < 1)
C15_Witness ==
  /\ cpc = "done"
  /\ lambda_mult = 2
  /\ Len(selected_ids) = 3
  /\ PoolFixed
  /\ SimToQuery(selected_ids[1]) > SimToQuery(selected_ids[2])
  /\ SimToQuery(selected_ids[2]) > SimToQuery(selected_ids[3])
  /\ CosSim(store.emb[selected_ids[1]], store.emb[selected_ids[2]])
       > CosSim(store.emb[selected_ids[1]], store.emb[selected_ids[3]])

\* x and x2 are similar, closer to each other than either is to y, and both are
\* more similar to the query than y
NearDuplicateTrio(x, x2, y) ==
  /\ x # x2 /\ x # y /\ x2 # y
  /\ CosSim(store.emb[x], store.emb[x2]) > 0
  /\ CosSim(store.emb[x], store.emb[x2]) > CosSim(store.emb[x], store.emb[y])
  /\ CosSim(store.emb[x], store.emb[x2]) > CosSim(store.emb[x2], store.emb[y])
  /\ SimToQuery(x) > SimToQuery(y)
  /\ SimToQuery(x2) > SimToQuery(y)

\* the expansion of the first pick (if any) added no candidate
FirstPickAddsNothing ==
  \/ selected_ids[1] \notin expanded
  \/ CkSuccessors({selected_ids[1]}) \subseteq seeds

\* the pool was {x, x2, y}, lambda_mult = 0, and a first pick was made
TrioPicked(x, x2, y) ==
  /\ lambda_mult = 0
  /\ cpc \in {"loop", "done"}
  /\ seeds = {x, x2, y}
  /\ NearDuplicateTrio(x, x2, y)
  /\ Len(selected_ids) >= 1
  /\ FirstPickAddsNothing

ScoreOf(n) == unselected[PositionIn(unselected, n)].score

\* after the first pick the other one of x, x2 scores below y; y is the
\* second pick, which is made when k >= 2
DistinctPickedSecond(x, x2, y) ==
  LET dup == IF selected_ids[1] = x THEN x2 ELSE x
  IN /\ Len(selected_ids) = 1 => ScoreOf(dup) < ScoreOf(y)
     /\ Len(selected_ids) >= 2 => selected_ids[2] = y
     /\ (cpc = "done" /\ k >= 2) => Len(selected_ids) >= 2

\* C16 (as claimed): with lambda_mult = 0 and a pool of near-duplicates x, x2
\* and a distinct, less similar y, the first pick is x or x2, its near-duplicate
\* then scores strictly below y, and y is the second pick.
C16_DistinctSecondAsClaimed ==
  \A x, x2, y \in DOMAIN store.emb :
     TrioPicked(x, x2, y) =>
       /\ selected_ids[1] \in {x, x2}
       /\ DistinctPickedSecond(x, x2, y)

\* C16 (amended): with lambda_mult = 0 and such a pool, when the first pick is
\* x or x2, its near-duplicate then scores strictly below y and y is the
\* second pick.
C16_DistinctSecondAfterDuplicate ==
  \A x, x2, y \in DOMAIN store.emb :
     (TrioPicked(x, x2, y) /\ selected_ids[1] \in {x, x2}) =>
       DistinctPickedSecond(x, x2, y)

\* the search ended with a near-duplicate picked first and the distinct
\* candidate second
C16_Witness ==
  /\ cpc = "done"
  /\ \E x, x2, y \in DOMAIN store.emb :
       /\ TrioPicked(x, x2, y)
       /\ Len(selected_ids) >= 2
       /\ selected_ids[1] = x
       /\ selected_ids[2] = y

\* C17 (as claimed): every selected document is at most `depth` edges away
\* from a fetched one, a candidate found through edges carries a distance of at
\* least one hop, and a node at distance d is expanded only if d + 1 < depth.
C17_CkDepthRespected ==
  cpc \in {"loop", "done"} =>
    /\ \A n \in CkSelected : n \in CkReachWithin(seeds, depth)
    /\ \A i \in 1..Len(unselected) :
         unselected[i].content_id \notin seeds => unselected[i].distance >= 1
    /\ \A n \in expanded : CkHopDistance(seeds, n) + 1 < depth

\* C18 (as claimed): when the similarity fetch returns no rows, the search
\* selects nothing and returns the empty result without raising.
C18_EmptyPoolReturnsEmpty ==
  (cpc # "start" /\ seeds = {}) =>
    /\ cpc \in {"loop", "done"}
    /\ selected_ids = << >>

(***************************************************************************)
(* CassandraKnowledgeStore._query_by_ids                                   *)
(***************************************************************************)
\* _row_to_document(row)
RowToDocument(n) == [content_id |-> n, kind |-> "passage"]

\* add_documents(rows, index): results.extend([(index, document), ...])
AddDocuments(res, rows, index) ==
  IF rows = {} THEN res
  ELSE Append(res, [index |-> index,
                    doc |-> RowToDocument(CHOOSE n \in rows : TRUE)])

RECURSIVE SortedFrom(_, _, _)
\* results.sort(key=index): the entries of index i, i + 1, ... up to last, the
\* entries of one index in their order in res
SortedFrom(res, i, last) ==
  IF i > last THEN << >>
  ELSE SelectSeq(res, LAMBDA e : e.index = i) \o SortedFrom(res, i + 1, last)

\* results.sort(...); return [doc for _, doc in results]
SortedDocuments(res, id_seq) ==
  LET sorted == SortedFrom(res, 0, Len(id_seq) - 1)
  IN [i \in 1..Len(sorted) |-> sorted[i].doc]

QbiInit ==
  /\ store = PlainStore
  /\ fpc = "loop"
  /\ ids \in SeqsUpTo(RequestIds, MaxIds)
  /\ next_index = 0
  /\ results = << >>
  /\ returned = << >>
  /\ completed = << >>
  /\ EngineIdle /\ TravIdle /\ MmrIdle /\ SharedIdle
  /\ SearchIdle /\ CkIdle /\ AddIdle
  /\ SchedIdle
  /\ PutIdle

\* one iteration of `for index, id in enumerate(ids)`
QbiSubmit ==
  /\ fpc = "loop"
  /\ next_index < Len(ids)
  /\ next_index' = next_index + 1
  /\ LET q == Query("byid", ids[next_index + 1], next_index)
     IN /\ cq_queue' = cq_queue (+) SetToBag({q})
        /\ submitted' = submitted (+) SetToBag({q})
        /\ cq_pending' = cq_pending + 1
  /\ UNCHANGED <<fpc, ids, results, returned, completed, cq_inflight, cq_error,
                 called, failed>>
  /\ UNCHANGED notFetch

\* a point lookup completes: add_documents(rows, index) runs
QbiComplete ==
  /\ fpc = "loop"
  /\ \E q \in BagToSet(cq_inflight) : \E rows \in DeliveredRows(q) :
       /\ results' = AddDocuments(results, rows, q.d)
       /\ completed' = Append(completed, q.arg)
       /\ cq_inflight' = cq_inflight (-) SetToBag({q})
       /\ called' = called (+) SetToBag({[query |-> q, rows |-> rows]})
  /\ cq_pending' = cq_pending - 1
  /\ UNCHANGED <<fpc, ids, next_index, returned, cq_queue, cq_error, submitted,
                 failed>>
  /\ UNCHANGED notFetch

\* the end of `with self._concurrent_queries() as cq:`
QbiExit ==
  /\ fpc = "loop"
  /\ next_index = Len(ids)
  /\ Quiescent
  /\ fpc' = IF ScopeRaises THEN "raised" ELSE "exited"
  /\ UNCHANGED <<ids, next_index, results, returned, completed>>
  /\ UNCHANGED <<cq_queue, cq_inflight, cq_pending, cq_error, submitted, called,
                 failed>>
  /\ UNCHANGED notFetch

\* results.sort(key=...); return [doc for _, doc in results]
QbiReturn ==
  /\ fpc = "exited"
  /\ fpc' = "done"
  /\ returned' = SortedDocuments(results, ids)
  /\ UNCHANGED <<ids, next_index, results, completed>>
  /\ UNCHANGED <<cq_queue, cq_inflight, cq_pending, cq_error, submitted, called,
                 failed>>
  /\ UNCHANGED notFetch

QbiNext == QbiSubmit \/ CqIssue \/ QbiComplete \/ CqFail \/ QbiExit
             \/ QbiReturn

SpecQbi == QbiInit /\ [][QbiNext]_vars

\* CassandraKnowledgeStore.mmr_traversal_search, whole: the search, then the
\* lookup of the selected ids that makes its result
CkNext == CkFetch \/ CkSelect \/ CkReturn
            \/ QbiSubmit \/ CqIssue \/ QbiComplete \/ CqFail \/ QbiExit
            \/ QbiReturn

SpecCk == CkInit /\ [][CkNext]_vars

\* C19 (as claimed): _query_by_ids returns one document per requested id, in
\* input order, and does not return when a requested id is not in the store.
C19_OneDocumentPerId ==
  fpc = "done" =>
    /\ Len(returned) = Len(ids)
    /\ \A i \in 1..Len(ids) : returned[i] = RowToDocument(ids[i])
    /\ \A i \in 1..Len(ids) : ids[i] \in NodeIds

(***************************************************************************)
(* GraphStore.add_nodes: ids are assigned in a first loop over the nodes,  *)
(* the texts are embedded, and one insert per node is submitted in a query *)
(* scope.  secrets.token_hex(8) is a draw among the tokens not drawn       *)
(* before (64 random bits, taken as collision free).                       *)
(***************************************************************************)
MaxNodes == 2

Tokens == {"0f3a", "51c2", "9be4", "d870"}

Link(kind, direction, tag) == [kind |-> kind, direction |-> direction, tag |-> tag]

\* Node(text, id, links): an empty id stands for id=None
InputNode(id, text, links) == [id |-> id, text |-> text, links |-> links]

InputNodeChoices ==
  { InputNode("", "x", {}),
    InputNode("", "y", {Link("kw", "bidir", "t1")}),
    InputNode("n1", "x", {Link("kw", "in", "t1"), Link("kw", "out", "t2")}),
    InputNode("n1", "y", {Link("href", "out", "t1")}) }

\* self._embedding.embed_texts: a function of the text
EmbedText(text) == IF text = "x" THEN <<5, 0>> ELSE <<0, 5>>

\* faulty variant: the id of an id-less node is derived from its text
AssignIdFromText(node, token) == IF node.id = "" THEN node.text ELSE node.id

\* `if not node.id: node_ids.append(secrets.token_hex(8))
\*  else: node_ids.append(node.id)`
AssignId(node, token) == IF node.id = "" THEN token ELSE node.id

\* link_to_tags: (kind, tag) of the links with direction out or bidir
LinkToTags(links) ==
  {<<l.kind, l.tag>> : l \in {x \in links : x.direction \in {"out", "bidir"}}}

\* faulty variant: a bidir link is not counted as incoming
LinkFromTagsInOnly(links) ==
  {<<l.kind, l.tag>> : l \in {x \in links : x.direction = "in"}}

\* link_from_tags: (kind, tag) of the links with direction in or bidir
LinkFromTags(links) ==
  {<<l.kind, l.tag>> : l \in {x \in links : x.direction \in {"in", "bidir"}}}

\* the parameters of self._insert_passage for a node
InsertedRow(node) ==
  [text |-> node.text, text_embedding |-> EmbedText(node.text),
   link_to_tags |-> LinkToTags(node.links),
   link_from_tags |-> LinkFromTags(node.links)]

\* INSERT INTO nodes (content_id, ...): the row of the id is written or replaced
Upsert(table, node_id, row) ==
  [n \in DOMAIN table \cup {node_id} |-> IF n = node_id THEN row ELSE table[n]]

\* the node table before the call: empty, or holding a node with id n1
AddStores ==
  {<< >>, Upsert(<< >>, "n1", InsertedRow(InputNode("n1", "y", {})))}

\* the tokens drawn so far
DrawnTokens == {node_ids[i] : i \in 1..Len(node_ids)} \cap Tokens

AddInit ==
  /\ store \in AddStores
  /\ apc = "ids"
  /\ input_nodes \in SeqsUpTo(InputNodeChoices, MaxNodes)
  /\ node_ids = << >>
  /\ EngineIdle /\ TravIdle /\ MmrIdle /\ SharedIdle
  /\ FetchIdle /\ SearchIdle /\ CkIdle
  /\ SchedIdle
  /\ PutIdle

\* one iteration of the first `for node in nodes`
AddAssignId ==
  /\ apc = "ids"
  /\ Len(node_ids) < Len(input_nodes)
  /\ \E token \in Tokens \ DrawnTokens :
       node_ids' = Append(node_ids,
                          AssignId(input_nodes[Len(node_ids) + 1], token))
  /\ UNCHANGED <<store, apc, input_nodes>>
  /\ UNCHANGED <<cq_queue, cq_inflight, cq_pending, cq_error, submitted, called,
                 failed>>
  /\ UNCHANGED notAdd

\* text_embeddings = self._embedding.embed_texts(texts)
AddEmbed ==
  /\ apc = "ids"
  /\ Len(node_ids) = Len(input_nodes)
  /\ apc' = "scope"
  /\ UNCHANGED <<store, input_nodes, node_ids>>
  /\ UNCHANGED <<cq_queue, cq_inflight, cq_pending, cq_error, submitted, called,
                 failed>>
  /\ UNCHANGED notAdd

\* the inserts submitted so far
InsertsSubmitted == BagCardinality(submitted)

\* one iteration of `for node_id, text, text_embedding, metadata, links in tuples`
AddSubmit ==
  /\ apc = "scope"
  /\ InsertsSubmitted < Len(input_nodes)
  /\ LET q == Query("insert", node_ids[InsertsSubmitted + 1], InsertsSubmitted)
     IN /\ cq_queue' = cq_queue (+) SetToBag({q})
        /\ submitted' = submitted (+) SetToBag({q})
        /\ cq_pending' = cq_pending + 1
  /\ UNCHANGED <<store, apc, input_nodes, node_ids, cq_inflight, cq_error,
                 called, failed>>
  /\ UNCHANGED notAdd

\* an insert completes: the row is in the node table
AddComplete ==
  /\ \E q \in BagToSet(cq_inflight) :
       /\ store' = Upsert(store, q.arg, InsertedRow(input_nodes[q.d + 1]))
       /\ cq_inflight' = cq_inflight (-) SetToBag({q})
       /\ called' = called (+) SetToBag({[query |-> q, rows |-> {}]})
  /\ cq_pending' = cq_pending - 1
  /\ UNCHANGED <<apc, input_nodes, node_ids, cq_queue, cq_error, submitted,
                 failed>>
  /\ UNCHANGED notAdd

\* the end of `with self._concurrent_queries() as cq:`, then `return node_ids`
AddExit ==
  /\ apc = "scope"
  /\ InsertsSubmitted = Len(input_nodes)
  /\ Quiescent
  /\ apc' = IF ScopeRaises THEN "raised" ELSE "returned"
  /\ UNCHANGED <<store, input_nodes, node_ids>>
  /\ UNCHANGED <<cq_queue, cq_inflight, cq_pending, cq_error, submitted, called,
                 failed>>
  /\ UNCHANGED notAdd

AddNext == AddAssignId \/ AddEmbed \/ AddSubmit \/ CqIssue \/ AddComplete
             \/ CqFail \/ AddExit

SpecAdd == AddInit /\ [][AddNext]_vars

(***************************************************************************)
(* CassandraKnowledgeStore.add_nodes: the rows of the node table the       *)
(* searches of the Cassandra store read, and the rows of the edge table    *)
(* written by the edge extractors.                                         *)
(***************************************************************************)
\* a node handed to add_nodes: metadata[CONTENT_ID] (empty: the key is
\* absent), the text, whether the node is a TextNode, and which dict object
\* its metadata is (the same node given twice, or two nodes made with one
\* dict, share it)
CkNode(id, text, is_text, meta) ==
  [id |-> id, text |-> text, is_text |-> is_text, meta |-> meta]

CkInputNodeChoices ==
  {CkNode(id, text, TRUE, meta) :
     id \in {"A", "B", ""}, text \in {"x", "y"}, meta \in {"m1", "m2"}}
    \cup {CkNode("B", "x", FALSE, "m2")}

\* nodes that share a metadata dict read the same content id from it
SameDictSameId(seq) ==
  \A i, j \in 1..Len(seq) : seq[i].meta = seq[j].meta => seq[i].id = seq[j].id

\* metadata[CONTENT_ID] = token: the dict object of the caller is written,
\* for every node that holds it
WriteContentId(seq, meta, id) ==
  [i \in 1..Len(seq) |->
     IF seq[i].meta = meta THEN [seq[i] EXCEPT !.id = id] ELSE seq[i]]

\* the tables before the call: empty, or holding the node C
CkAddStores ==
  {EmptyCkStore, [emb |-> Upsert(<< >>, "C", <<0, 5>>), edges |-> {}]}

CkAddInit ==
  /\ store \in CkAddStores
  /\ apc = "texts"
  /\ input_nodes \in SeqsUpTo(CkInputNodeChoices, MaxNodes)
  /\ SameDictSameId(input_nodes)
  /\ node_ids = << >>
  /\ EngineIdle /\ TravIdle /\ MmrIdle /\ SharedIdle
  /\ FetchIdle /\ SearchIdle /\ CkIdle
  /\ SchedIdle
  /\ PutIdle

\* `for node in nodes`: a node that is not a TextNode raises ValueError;
\* then text_embeddings = self._embedding.embed_documents(texts)
CkAddTexts ==
  /\ apc = "texts"
  /\ apc' = IF \E i \in 1..Len(input_nodes) : ~input_nodes[i].is_text
              THEN "raised" ELSE "scope"
  /\ UNCHANGED <<store, input_nodes, node_ids>>
  /\ UNCHANGED <<cq_queue, cq_inflight, cq_pending, cq_error, submitted, called,
                 failed>>
  /\ UNCHANGED notAdd

\* one iteration of `for text, text_embedding, metadata in tuples`: when the
\* key is absent a fresh token is written into the metadata dict; the id is
\* metadata[CONTENT_ID], and the insert of the row is submitted
CkAddSubmit ==
  /\ apc = "scope"
  /\ Len(node_ids) < Len(input_nodes)
  /\ LET node == input_nodes[Len(node_ids) + 1]
         tokens == IF node.id = "" THEN Tokens \ DrawnTokens ELSE {node.id}
     IN \E id \in tokens :
          LET q == Query("insert", id, Len(node_ids))
          IN /\ input_nodes' = WriteContentId(input_nodes, node.meta, id)
             /\ node_ids' = Append(node_ids, id)
             /\ cq_queue' = cq_queue (+) SetToBag({q})
             /\ submitted' = submitted (+) SetToBag({q})
             /\ cq_pending' = cq_pending + 1
  /\ UNCHANGED <<store, apc, cq_inflight, cq_error, called, failed>>
  /\ UNCHANGED notAdd

\* an insert completes: the row (content_id, text_embedding) is in the node
\* table
CkAddComplete ==
  /\ apc = "scope"
  /\ \E q \in BagToSet(cq_inflight) :
       /\ store' = [store EXCEPT !.emb =
                      Upsert(@, q.arg, EmbedText(input_nodes[q.d + 1].text))]
       /\ cq_inflight' = cq_inflight (-) SetToBag({q})
       /\ called' = called (+) SetToBag({[query |-> q, rows |-> {}]})
  /\ cq_pending' = cq_pending - 1
  /\ UNCHANGED <<apc, input_nodes, node_ids, cq_queue, cq_error, submitted,
                 failed>>
  /\ UNCHANGED notAdd

\* the end of `with self._concurrent_queries() as cq:`
CkAddExit ==
  /\ apc = "scope"
  /\ Len(node_ids) = Len(input_nodes)
  /\ Quiescent
  /\ apc' = IF ScopeRaises THEN "raised" ELSE "edges"
  /\ UNCHANGED <<store, input_nodes, node_ids>>
  /\ UNCHANGED <<cq_queue, cq_inflight, cq_pending, cq_error, submitted, called,
                 failed>>
  /\ UNCHANGED notAdd

\* `for extractor in self._edge_extractors: extractor.extract_edges(...)`,
\* then `return ids`: the extractors write rows (source_content_id,
\* target_content_id) of the edge table, from or to a node of the call;
\* which ones is up to the extractors
CkAddEdges ==
  /\ apc = "edges"
  /\ apc' = "returned"
  /\ \E E \in SUBSET {e \in (DOMAIN store.emb) \X (DOMAIN store.emb) :
                        \E i \in 1..Len(node_ids) : node_ids[i] \in {e[1], e[2]}} :
       store' = [store EXCEPT !.edges = @ \cup E]
  /\ UNCHANGED <<input_nodes, node_ids>>
  /\ UNCHANGED <<cq_queue, cq_inflight, cq_pending, cq_error, submitted, called,
                 failed>>
  /\ UNCHANGED notAdd

CkAddNext == CkAddTexts \/ CkAddSubmit \/ CqIssue \/ CkAddComplete \/ CqFail
               \/ CkAddExit \/ CkAddEdges

SpecCkAdd == CkAddInit /\ [][CkAddNext]_vars

\* the positions of the input nodes without an id
IdLess == {i \in 1..Len(input_nodes) : input_nodes[i].id = ""}

\* C20: add_nodes returns one id per input node, in input order; a node with
\* an id keeps it, a node without an id gets a generated id that no input
\* node carries, and two id-less input nodes (the same node twice included)
\* get two different ids and are two stored nodes.
C20_OneIdPerNode ==
  apc = "returned" =>
    /\ Len(node_ids) = Len(input_nodes)
    /\ \A i \in 1..Len(input_nodes) :
         input_nodes[i].id # "" => node_ids[i] = input_nodes[i].id
    /\ \A i \in IdLess :
         /\ node_ids[i] \in Tokens
         /\ node_ids[i] \in DOMAIN store
         /\ store[node_ids[i]] = InsertedRow(input_nodes[i])
    /\ \A i \in IdLess : \A j \in IdLess : i # j => node_ids[i] # node_ids[j]

\* the same id-less node was inserted twice and is stored under two ids
C20_Witness ==
  /\ apc = "returned"
  /\ Len(input_nodes) = 2
  /\ input_nodes[1] = input_nodes[2]
  /\ input_nodes[1].id = ""
  /\ node_ids[1] # node_ids[2]
  /\ {node_ids[1], node_ids[2]} \subseteq DOMAIN store

(***************************************************************************)
(* Cancellation (spec section 5): the caller of traversal_search raises a  *)
(* cancellation signal while the call is under way.  traversal_search has  *)
(* no parameter for such a signal and its callbacks read none, so the      *)
(* steps of the traversal are the ones above, unchanged.                   *)
(***************************************************************************)
\* the caller raises the signal while the query scope is open
Cancel ==
  /\ tpc = "scope"
  /\ ~cancelled
  /\ cancelled' = TRUE
  /\ UNCHANGED <<store, sharedVars, mmrOnly, travOnly, fetchOnly, searchOnly,
                 ckOnly, addOnly, running, putOnly>>

\* a traversal from one seed (the signal does not depend on k)
CancelInit == TravInit /\ k = 1

CancelNext == TravNext \/ Cancel

SpecCancel == CancelInit /\ [][CancelNext]_vars

\* C21 (as claimed): once the cancellation signal is raised, the traversal
\* submits no new query and sends no waiting query to the store, so that it
\* returns when the queries in flight at that moment have completed.
C21_NoQueryAfterCancel ==
  [][cancelled =>
       /\ submitted' = submitted
       /\ BagCardinality(cq_inflight') <= BagCardinality(cq_inflight)]_vars

(***************************************************************************)
(* Further properties of GraphStore.mmr_traversal_search                   *)
(***************************************************************************)
\* how many adjacency queries of the call used the tag
QueriesOfTag(tag) ==
  LET Q == {q \in BagToSet(adj_queries) : q.tag = tag}
      RECURSIVE Sum(_)
      Sum(S) == IF S = {} THEN 0
                ELSE LET q == CHOOSE x \in S : TRUE
                     IN CopiesIn(q, adj_queries) + Sum(S \ {q})
  IN Sum(Q)

\* C22 (as claimed): within one call no tag is used for an adjacency query
\* more than once, the tags queried for the initial roots included.
C22_TagQueriedOnce == \A t \in Tags : QueriesOfTag(t) <= 1

(***************************************************************************)
(* Further properties of GraphStore.traversal_search                       *)
(***************************************************************************)
\* q is submitted in the step
NewlySubmitted(q) == CopiesIn(q, submitted') > CopiesIn(q, submitted)

\* the callback of c.query runs in the step
CalledNow(c) == CopiesIn(c, called') > CopiesIn(c, called)

\* C23 (as claimed): once an adjacency query for a tag has been scheduled at
\* depth d1, a callback that meets the tag at a depth d2 >= d1 submits no
\* adjacency query for it.
C23_TagQueriedOncePerDepth ==
  [][\A q \in BagToSet(submitted') :
       (NewlySubmitted(q) /\ q.op = "adj" /\ q.arg \in DOMAIN visited_tags)
         => q.d < visited_tags[q.arg]]_vars

\* C24 (as claimed): a node recorded at depth d gets a point lookup only when
\* it is reached at a depth smaller than d, and a visit of it at a depth equal
\* to or greater than d submits no query.
C24_NodeProcessedOnlyWhenCloser ==
  [][/\ \A q \in BagToSet(submitted') :
          (NewlySubmitted(q) /\ q.op = "byid" /\ q.arg \in DOMAIN visited_ids)
            => q.d < visited_ids[q.arg]
     /\ \A c \in BagToSet(called') :
          ( /\ CalledNow(c)
            /\ c.query.op = "byid"
            /\ c.query.arg \in DOMAIN visited_ids
            /\ visited_ids[c.query.arg] <= c.query.d )
            => submitted' = submitted]_vars

(***************************************************************************)
(* mmr_traversal_search over stores of four nodes in which a candidate is  *)
(* reached over two paths of different lengths.                            *)
(***************************************************************************)
PathRow(embedding, O, I) ==
  [text_embedding |-> embedding, link_to_tags |-> O, link_from_tags |-> I]

\* A and C are the nearest nodes of the query; A links to B over t1, B may
\* link to D over t2, and C may link to D over t3
PathStores ==
  {[n \in {"A", "B", "C", "D"} |->
      CASE n = "A" -> PathRow(<<4, 3>>, {"t1"}, {})
        [] n = "B" -> PathRow(<<0, -5>>, b, {"t1"})
        [] n = "C" -> PathRow(<<3, 4>>, c, {})
        [] OTHER -> PathRow(<<-5, 0>>, {}, d)] :
     b \in {{}, {"t2"}}, c \in {{}, {"t3"}}, d \in {{"t2"}, {"t2", "t3"}}}

PathInit ==
  /\ store \in PathStores
  /\ mpc = "start"
  /\ k \in 1..MaxK
  /\ depth \in 0..MaxDepth
  /\ fetch_k \in FetchKs
  /\ adjacent_k \in AdjacentKs
  /\ lambda_mult \in LambdaNums
  /\ score_threshold \in Thresholds
  /\ initial_roots \in RootChoices
  /\ outgoing_tags = << >>
  /\ visited_tags = {}
  /\ depths = << >>
  /\ candidates = << >>
  /\ selected_ids = << >>
  /\ iter = 0
  /\ seeds = {}
  /\ adj_queries = EmptyBag
  /\ root_adjacents = {}
  /\ adjacent_tags = {}
  /\ ann_queries = 0
  /\ EngineIdle /\ TravIdle /\ FetchIdle /\ SearchIdle /\ CkIdle /\ AddIdle
  /\ SchedIdle
  /\ PutIdle

SpecMmrPaths == PathInit /\ [][MmrNext]_vars

\* the node selected in the step
SelectedNow == selected_ids[Len(selected_ids)]

\* the nodes that the adjacency queries of the step return for certain: those
\* of a tag whose query limit covers every node carrying the tag
CertainAdjacents ==
  UNION {WithIncoming(t) : t \in
           {u \in adjacent_tags :
              Cardinality(WithIncoming(u)) <= AdjacentLimit(adjacent_k)}}

\* C25 (as claimed): initially fetched candidates have depth 0, and when a
\* selected node of depth d is expanded, every candidate of the pool that the
\* adjacency results contain has afterwards the depth min(recorded, d + 1),
\* also when it was in the pool before; the other recorded depths stay.
C25_ShortestKnownDepth ==
  [][/\ (mpc = "depths" /\ mpc' = "loop") =>
          \A n \in DOMAIN candidates' : depths'[n] = 0
     /\ (mpc = "adjacent" /\ mpc' = "loop") =>
          /\ \A n \in DOMAIN candidates' \cap CertainAdjacents :
               depths'[n] = Min(Get(depths, n, depths[SelectedNow] + 1),
                                depths[SelectedNow] + 1)
          /\ \A n \in (DOMAIN candidates' \cap DOMAIN depths) \ CertainAdjacents :
               depths'[n] <= depths[n]]_vars

(***************************************************************************)
(* Termination of traversal_search.  The store answers or fails every      *)
(* query sent to it, the scope sends a waiting query when a slot is free,  *)
(* and the calling thread goes on when the scope has drained: some enabled *)
(* step is always taken.                                                   *)
(***************************************************************************)
\* the stores of the traversal with the two tags t1 and t2 alone: loops
\* and cycles through every node are among them
FairStores ==
  {st \in TravStores :
     \A n \in NodeIds : "t3" \notin st[n].link_to_tags \cup st[n].link_from_tags}

\* a traversal from one seed (termination does not depend on k)
FairInit == TravInit /\ k = 1 /\ store \in FairStores

SpecTravFair == FairInit /\ [][TravNext]_vars /\ WF_vars(TravNext)

\* the call has returned or raised
TravTerminated ==
  \/ tpc \in {"done", "raised"}
  \/ tpc = "hydrate" /\ fpc \in {"raised", "not_found"}

\* every query was submitted for a depth within the limit: adjacency queries
\* from nodes at a depth below `depth` only
QueriesWithinDepth ==
  \A q \in BagToSet(submitted) :
     /\ q.d <= depth
     /\ q.op = "adj" => q.d < depth

\* C26: traversal_search terminates on every store, cyclic links and nodes
\* that link to themselves included: no query is submitted from a node at
\* depth >= `depth`, and the call eventually returns or raises.
C26_TraversalTerminates == []QueriesWithinDepth /\ <>TravTerminated

\* the traversal returned after it went around a node that links to itself
\* and a cycle of two nodes
C26_Witness ==
  /\ tpc = "done"
  /\ depth = TravMaxDepth
  /\ \E n \in result : store[n].link_to_tags \cap store[n].link_from_tags # {}
  /\ \E n, m \in result :
       /\ n # m
       /\ store[n].link_to_tags \cap store[m].link_from_tags # {}
       /\ store[m].link_to_tags \cap store[n].link_from_tags # {}

(***************************************************************************)
(* Callbacks on more than one thread.  visit_nodes takes no lock, and the  *)
(* query scope does not serialize the callbacks it invokes (spec sections  *)
(* 4.1 and 5): a callback may be between its test                          *)
(* `d <= visited_ids.get(content_id, depth)` and the assignment            *)
(* `visited_ids[content_id] = d`, or at any other line, while another      *)
(* callback runs.  A step of a callback is one read or one write of the    *)
(* shared maps, or one cq.execute; the slot of a query is free once its    *)
(* response has arrived.                                                   *)
(***************************************************************************)
\* a callback under way: the query and its rows, the line it is about to
\* run, the rows of its loop not yet taken, the node and the tag in hand, the
\* tags of the node not yet taken, and outgoing_tags (visit_nodes) or
\* new_nodes_at_next_depth (visit_targets)
CallbackFrame(q, rows) ==
  [query |-> q, rows |-> rows, pc |-> "test", todo |-> rows, cur |-> "",
   tags |-> {}, tag |-> "", out |-> {}]

\* the loop over the rows goes on: the test of the next row, or the
\* submissions after the loop, or the end of the callback
NextRow(r) ==
  LET r1 == [r EXCEPT !.cur = "", !.tags = {}, !.tag = ""]
  IN IF r1.todo # {} THEN [r1 EXCEPT !.pc = "test"]
     ELSE IF r1.out # {} THEN [r1 EXCEPT !.pc = "execute"]
     ELSE [r1 EXCEPT !.pc = "return"]

\* `for kind, value in node.link_to_tags` goes on
NextTag(r) ==
  IF r.tags # {} THEN [r EXCEPT !.pc = "test_tag", !.tag = ""] ELSE NextRow(r)

\* the rows the loop may take next: the rows of the similarity query come
\* nearest first, those of an adjacency query in no order fixed by the code
FirstRows(r) ==
  IF r.query.op = "adj" THEN r.todo ELSE {Head(InRowOrder(r.todo))}

\* the running callback r becomes r2
Resume(r, r2) == running' = (running (-) SetToBag({r})) (+) SetToBag({r2})

\* the response of a query arrives on a thread of the driver: the slot of
\* the query is free and its callback starts
CbBegin ==
  /\ tpc = "scope"
  /\ \E q \in BagToSet(cq_inflight) : \E rows \in DeliveredRows(q) :
       /\ cq_inflight' = cq_inflight (-) SetToBag({q})
       /\ running' = running (+) SetToBag({NextRow(CallbackFrame(q, rows))})
       /\ seeds' = IF q.op = "ann" THEN rows ELSE seeds
  /\ UNCHANGED <<store, k, depth, visited_tags, mmrOnly, tpc, visited_ids,
                 visit_order, result, cq_queue, cq_pending, cq_error,
                 submitted, called, failed, corrected, fetchOnly, searchOnly,
                 ckOnly, addOnly, cancelled, putOnly>>

\* visit_nodes: if d <= visited_ids.get(content_id, depth)
CbTestNode ==
  /\ \E r \in BagToSet(running) :
       /\ r.pc = "test"
       /\ r.query.op # "adj"
       /\ \E n \in FirstRows(r) :
            LET r1 == [r EXCEPT !.todo = @ \ {n}]
            IN Resume(r, IF NodeIsCloser(r.query.d, n)
                           THEN [r1 EXCEPT !.pc = "set_node", !.cur = n]
                           ELSE NextRow(r1))
  /\ UNCHANGED <<store, sharedVars, mmrOnly, travOnly, fetchOnly, searchOnly,
                 ckOnly, addOnly, cancelled, putOnly>>

\* visit_nodes: visited_ids[content_id] = d, then the test of
\* `d < depth and node.link_to_tags`
CbSetNode ==
  /\ \E r \in BagToSet(running) :
       /\ r.pc = "set_node"
       /\ visited_ids' = [n \in DOMAIN visited_ids \cup {r.cur} |->
                            IF n = r.cur THEN r.query.d ELSE visited_ids[n]]
       /\ visit_order' = IF r.cur \in DOMAIN visited_ids THEN visit_order
                         ELSE Append(visit_order, r.cur)
       /\ corrected' = (corrected \/ (/\ r.cur \in DOMAIN visited_ids
                                      /\ r.query.d < visited_ids[r.cur]))
       /\ Resume(r, IF CanContinue(r.query.d)
                      THEN NextTag([r EXCEPT !.tags = store[r.cur].link_to_tags])
                      ELSE NextRow(r))
  /\ UNCHANGED <<store, sharedVars, mmrOnly, tpc, result, cq_queue,
                 cq_inflight, cq_pending, cq_error, submitted, called, failed,
                 fetchOnly, searchOnly, ckOnly, addOnly, cancelled, putOnly>>

\* visit_nodes: if d <= visited_tags.get((kind, value), depth)
CbTestTag ==
  /\ \E r \in BagToSet(running) :
       /\ r.pc = "test_tag"
       /\ \E t \in r.tags :
            LET r1 == [r EXCEPT !.tags = @ \ {t}]
            IN Resume(r, IF TagIsCloser(r.query.d, t)
                           THEN [r1 EXCEPT !.pc = "set_tag", !.tag = t]
                           ELSE NextTag(r1))
  /\ UNCHANGED <<store, sharedVars, mmrOnly, travOnly, fetchOnly, searchOnly,
                 ckOnly, addOnly, cancelled, putOnly>>

\* visit_nodes: visited_tags[(kind, value)] = d and
\* outgoing_tags.add((kind, value))
CbSetTag ==
  /\ \E r \in BagToSet(running) :
       /\ r.pc = "set_tag"
       /\ visited_tags' = [t \in DOMAIN visited_tags \cup {r.tag} |->
                             IF t = r.tag THEN r.query.d ELSE visited_tags[t]]
       /\ Resume(r, NextTag([r EXCEPT !.out = @ \cup {r.tag}]))
  /\ UNCHANGED <<store, k, depth, seeds, mmrOnly, travOnly, fetchOnly,
                 searchOnly, ckOnly, addOnly, cancelled, putOnly>>

\* visit_targets: if d < visited_ids.get(content_id, depth):
\* new_nodes_at_next_depth.add(content_id)
CbTestTarget ==
  /\ \E r \in BagToSet(running) :
       /\ r.pc = "test"
       /\ r.query.op = "adj"
       /\ \E n \in FirstRows(r) :
            LET r1 == [r EXCEPT !.todo = @ \ {n}]
            IN Resume(r, IF TargetIsNew(r.query.d, n)
                           THEN NextRow([r1 EXCEPT !.out = @ \cup {n}])
                           ELSE NextRow(r1))
  /\ UNCHANGED <<store, sharedVars, mmrOnly, travOnly, fetchOnly, searchOnly,
                 ckOnly, addOnly, cancelled, putOnly>>

\* one cq.execute of the loop that ends visit_nodes (an adjacency query for
\* a tag of outgoing_tags) or visit_targets (a point lookup for an id of
\* new_nodes_at_next_depth)
CbExecute ==
  /\ \E r \in BagToSet(running) :
       /\ r.pc = "execute"
       /\ \E x \in r.out :
            LET q == IF r.query.op = "adj"
                       THEN Query("byid", x, r.query.d + 1)
                       ELSE Query("adj", x, r.query.d)
                r1 == [r EXCEPT !.out = @ \ {x}]
            IN /\ cq_queue' = cq_queue (+) SetToBag({q})
               /\ submitted' = submitted (+) SetToBag({q})
               /\ Resume(r, IF r1.out = {} THEN [r1 EXCEPT !.pc = "return"]
                            ELSE r1)
  /\ cq_pending' = cq_pending + 1
  /\ UNCHANGED <<store, sharedVars, mmrOnly, tpc, visited_ids, visit_order,
                 result, cq_inflight, cq_error, called, failed, corrected,
                 fetchOnly, searchOnly, ckOnly, addOnly, cancelled, putOnly>>

\* the callback returns: the query is no longer pending
CbEnd ==
  /\ \E r \in BagToSet(running) :
       /\ r.pc = "return"
       /\ running' = running (-) SetToBag({r})
       /\ called' = called (+) SetToBag({[query |-> r.query, rows |-> r.rows]})
  /\ cq_pending' = cq_pending - 1
  /\ UNCHANGED <<store, sharedVars, mmrOnly, tpc, visited_ids, visit_order,
                 result, cq_queue, cq_inflight, cq_error, submitted, failed,
                 corrected, fetchOnly, searchOnly, ckOnly, addOnly, cancelled,
                 putOnly>>

\* the stores of the traversal in which A, the node nearest to the query,
\* has no incoming tag and B no outgoing tag: C may be one hop from A, and B
\* one hop from A and one hop from C
RaceStores ==
  {st \in TravStores :
     st["A"].link_from_tags = {} /\ st["B"].link_to_tags = {}}

\* a traversal from one seed
RaceInit == TravInit /\ k = 1 /\ store \in RaceStores

RaceNext == TravStart \/ CqIssue \/ CqFail \/ TravExit \/ TravReturn
              \/ CbBegin \/ CbTestNode \/ CbSetNode \/ CbTestTag \/ CbSetTag
              \/ CbTestTarget \/ CbExecute \/ CbEnd
              \/ NwiSubmit \/ NwiComplete \/ NwiExit \/ NwiReturn \/ TravDone

SpecRace == RaceInit /\ [][RaceNext]_vars

\* C28 (as claimed): the callbacks' tests and updates of visited_ids do not
\* interleave: a callback writes a depth only over a state that still passes
\* its test, so that the depths recorded when the scope has drained are those
\* of a sequential execution of the callbacks, the least numbers of hops.
C28_CallbacksSerialized ==
  /\ [][\A r \in BagToSet(running) :
          (r.pc = "set_node" /\ CopiesIn(r, running') < CopiesIn(r, running))
            => NodeIsCloser(r.query.d, r.cur)]_vars
  /\ [](tpc \in {"exited", "hydrate", "done"} =>
          \A n \in DOMAIN visited_ids : visited_ids[n] = HopDistance(seeds, n))

(***************************************************************************)
(* Further properties of CassandraKnowledgeStore.mmr_traversal_search      *)
(***************************************************************************)
\* the id appended to selected_ids in the step
CkPicked == selected_ids'[Len(selected_ids')]

\* C29: every pick has, at the moment it is made, the greatest score of all
\* candidates in the pool (the fetched ones with their updated redundancy and
\* the ones added by expansions), and a score that is not below the threshold.
C29_GreedyPick ==
  [][selected_ids' # selected_ids =>
       LET at == PositionIn(unselected, CkPicked)
       IN /\ at > 0
          /\ \A i \in 1..Len(unselected) :
               unselected[at].score >= unselected[i].score
          /\ score_threshold.finite =>
               unselected[at].score >= score_threshold.value]_vars

\* a candidate added by an expansion was picked while a fetched candidate,
\* penalised for an earlier pick, stayed in the pool
C29_Witness ==
  /\ cpc \in {"loop", "done"}
  /\ \E i \in 1..Len(selected_ids) : selected_ids[i] \notin seeds
  /\ \E j \in 1..Len(unselected) :
       /\ unselected[j].content_id \in seeds
       /\ unselected[j].redundancy > 0

\* (1 - lambda) * similarity(selected, candidate) for every selection so far
RSims(c) ==
  {SelectedRSim(c, store.emb[selected_ids[i]]) : i \in 1..Len(selected_ids)}

\* the greatest element of a non-empty set of integers
MaxOf(S) == CHOOSE x \in S : \A y \in S : x >= y

\* C30 (as claimed): once something is selected, the redundancy of every
\* candidate in the pool is the maximum over the selected embeddings of
\* (1 - lambda) * similarity(selected, candidate).
C30_RedundancyIsMax ==
  (cpc \in {"loop", "done"} /\ selected_ids # << >>) =>
    \A i \in 1..Len(unselected) :
       unselected[i].redundancy = MaxOf(RSims(unselected[i]))

\* C30 (amended): the redundancy of every candidate in the pool is the
\* maximum of 0 and of (1 - lambda) * similarity(selected, candidate) over the
\* embeddings selected so far, also for a candidate added to the pool after
\* selections were made; its score is similarity_to_query minus that.
C30_RedundancyIsMaxOrZero ==
  cpc \in {"loop", "done"} =>
    \A i \in 1..Len(unselected) :
       /\ unselected[i].redundancy = MaxOf(RSims(unselected[i]) \cup {0})
       /\ unselected[i].score =
            unselected[i].similarity_to_query - unselected[i].redundancy

\* a candidate added by the third pick's expansion carries the redundancy of
\* an earlier pick, greater than the one of the latest pick
C30_Witness ==
  /\ cpc \in {"loop", "done"}
  /\ Len(selected_ids) >= 3
  /\ \E i \in 1..Len(unselected) :
       /\ unselected[i].content_id \notin seeds
       /\ unselected[i].redundancy > 0
       /\ unselected[i].redundancy >
            SelectedRSim(unselected[i],
                         store.emb[selected_ids[Len(selected_ids)]])
       /\ \A j \in 1..(Len(selected_ids) - 1) :
            <<selected_ids[j], unselected[i].content_id>> \notin store.edges

(***************************************************************************)
(* Score monotonicity of the candidates of the Cassandra store             *)
(***************************************************************************)

\* the candidate at position i is still in the pool, at position j, after
\* the step
SameCandidate(i, j) == unselected[i].content_id = unselected'[j].content_id

\* C31: for every candidate and every redundancy update, the redundancy does
\* not decrease and the score does not increase, and the score always equals
\* similarity_to_query minus the current redundancy
C31_ScoreMonotone ==
  /\ [][\A i \in 1..Len(unselected) : \A j \in 1..Len(unselected') :
          SameCandidate(i, j) =>
            /\ unselected'[j].redundancy >= unselected[i].redundancy
            /\ unselected'[j].score <= unselected[i].score]_vars
  /\ [](\A i \in 1..Len(unselected) :
          unselected[i].score =
            unselected[i].similarity_to_query - unselected[i].redundancy)

\* two selections were made and a candidate of the pool kept a redundancy
\* greater than what the latest selection alone gives it
C31_Witness ==
  /\ Len(selected_ids) >= 2
  /\ \E i \in 1..Len(unselected) :
       /\ unselected[i].redundancy > 0
       /\ unselected[i].redundancy >
            SelectedRSim(unselected[i],
                         store.emb[selected_ids[Len(selected_ids)]])
       /\ unselected[i].score < unselected[i].similarity_to_query

(***************************************************************************)
(* A candidate of the pool is created once                                 *)
(***************************************************************************)

\* the embedding of the node selected by the step
LatestSelectedEmbedding == store.emb[selected_ids'[Len(selected_ids')]]

\* C32: the similarity-to-query value and the embedding of a candidate never
\* change after it is created: the redundancy update leaves them alone, and
\* an id already in the pool is neither replaced nor scored again when an
\* adjacency reaches it once more
C32_FirstWriterWins ==
  [][\A i \in 1..Len(unselected) :
       LET J == {j \in 1..Len(unselected') : SameCandidate(i, j)}
           updated == CandidateUpdateForSelection(unselected[i],
                                                  LatestSelectedEmbedding)
       IN /\ Cardinality(J) <= 1
          /\ \A j \in J :
               /\ unselected'[j].embedding = unselected[i].embedding
               /\ unselected'[j].similarity_to_query =
                    unselected[i].similarity_to_query
               /\ selected_ids' # selected_ids =>
                    /\ unselected'[j].redundancy = updated.redundancy
                    /\ unselected'[j].score = updated.score]_vars

\* a candidate from the similarity fetch, with a redundancy, is still in the
\* pool after a selected node whose edges were followed pointed at it
C32_Witness ==
  \E i \in 1..Len(unselected) : \E n \in expanded :
     /\ unselected[i].content_id \in seeds
     /\ <<n, unselected[i].content_id>> \in store.edges
     /\ unselected[i].redundancy > 0

(***************************************************************************)
(* The initial roots of GraphStore.mmr_traversal_search                    *)
(***************************************************************************)

\* C33: an id of initial_roots is never added to the candidate pool and
\* never appears in the result, also when the similarity fetch or an
\* adjacency query returns the root
C33_RootsNeverCandidates ==
  \A r \in initial_roots :
     /\ r \notin DOMAIN candidates
     /\ r \notin Selected
     /\ \A i \in 1..Len(returned) : returned[i].id # r

\* the search is over with a selection, a root was returned by the adjacency
\* query of the roots, every node was fetched by similarity, and a selected
\* node that was expanded points at the root
C33_Witness ==
  /\ mpc = "done"
  /\ fpc = "done"
  /\ returned # << >>
  /\ \E r \in initial_roots :
       /\ r \in root_adjacents
       /\ ann_queries = 1
       /\ fetch_k >= 1
       /\ r \in UNION TopSets(DOMAIN store, fetch_k)
       /\ \E i \in 1..Len(selected_ids) :
            /\ store[selected_ids[i]].link_to_tags
                 \cap store[r].link_from_tags # {}
            /\ selected_ids[i] \notin DOMAIN outgoing_tags

(***************************************************************************)
(* The limit of the adjacency queries                                      *)
(***************************************************************************)

\* how many adjacency queries for the tag were issued for selected nodes
SelectedQueriesOfTag(tag) ==
  LET Q == {q \in BagToSet(adj_queries) : q.tag = tag /\ q.src # "roots"}
      RECURSIVE Sum(_)
      Sum(S) == IF S = {} THEN 0
                ELSE LET q == CHOOSE x \in S : TRUE
                     IN CopiesIn(q, adj_queries) + Sum(S \ {q})
  IN Sum(Q)

\* the ids that entered the pool through a selected node
FoundBySelected ==
  IF mpc \in {"loop", "done"} THEN (DOMAIN candidates \cup Selected) \ seeds
  ELSE {}

\* C34 (as claimed): every adjacency query, for the initial roots and for a
\* selected node, fetches at most adjacent_k nodes for its tag, whatever the
\* value of adjacent_k >= 0.  (Every node of the stores has at most one
\* incoming tag, so the nodes fetched for a tag are the fetched nodes that
\* carry it.)
C34_AtMostAdjacentKPerTag ==
  \A t \in Tags :
     /\ Cardinality(root_adjacents \cap WithIncoming(t)) <= adjacent_k
     /\ Cardinality(FoundBySelected \cap WithIncoming(t))
          <= adjacent_k * SelectedQueriesOfTag(t)

(***************************************************************************)
(* The tag sets stored by GraphStore.add_nodes                             *)
(***************************************************************************)

\* the row holds the tags of the links, by direction
TagsOfLinks(row, links) ==
  /\ \A l \in links :
       /\ l.direction \in {"out", "bidir"} =>
            <<l.kind, l.tag>> \in row.link_to_tags
       /\ l.direction \in {"in", "bidir"} =>
            <<l.kind, l.tag>> \in row.link_from_tags
  /\ \A p \in row.link_to_tags :
       \E l \in links : <<l.kind, l.tag>> = p /\ l.direction # "in"
  /\ \A p \in row.link_from_tags :
       \E l \in links : <<l.kind, l.tag>> = p /\ l.direction # "out"

\* C35: for every node passed to add_nodes, the row its insert stores has as
\* link_to_tags exactly the (kind, tag) of the node's links with direction
\* out or bidir and as link_from_tags exactly those with direction in or
\* bidir; the tag of a bidir link is in both sets
C35_TagSetsByDirection ==
  [][\A q \in BagToSet(cq_inflight) :
       CalledNow([query |-> q, rows |-> {}]) =>
         /\ q.arg \in DOMAIN store'
         /\ TagsOfLinks(store'[q.arg], input_nodes[q.d + 1].links)]_vars

\* add_nodes returned after storing a node with a bidir link, whose tag is
\* in both sets, and a node with an incoming and an outgoing link
C35_Witness ==
  /\ apc = "returned"
  /\ Len(input_nodes) = 2
  /\ input_nodes[1].links = {Link("kw", "bidir", "t1")}
  /\ input_nodes[2].links = {Link("kw", "in", "t1"), Link("kw", "out", "t2")}
  /\ <<"kw", "t1">> \in store[node_ids[1]].link_to_tags
                         \cap store[node_ids[1]].link_from_tags
  /\ store[node_ids[2]].link_to_tags = {<<"kw", "t2">>}
  /\ store[node_ids[2]].link_from_tags = {<<"kw", "t1">>}

(***************************************************************************)
(* The maps kept beside the candidate pool                                 *)
(***************************************************************************)

\* C36: in every state of the selection loop every id of the candidate pool
\* has an entry in outgoing_tags and in depths, so depths[selected_id] and
\* outgoing_tags.pop(selected_id) find the freshly selected id
C36_PoolIdsAreMapped ==
  mpc \in {"loop", "adjacent", "done"} =>
    \A n \in DOMAIN candidates :
       /\ n \in DOMAIN outgoing_tags
       /\ n \in DOMAIN depths

\* a candidate found through a selected node is in the pool, beside a
\* selected node that the expansion removed from outgoing_tags
C36_Witness ==
  /\ mpc = "loop"
  /\ \E n \in DOMAIN candidates \ seeds :
       /\ n \in DOMAIN depths
       /\ depths[n] >= 1
  /\ \E i \in 1..Len(selected_ids) : selected_ids[i] \notin DOMAIN outgoing_tags

(***************************************************************************)
(* GraphStore.traversal_search with depth = 0                              *)
(***************************************************************************)

\* C37: with depth = 0 the scope of traversal_search gets the initial
\* similarity query only, no adjacency query and no point lookup, and the
\* call returns exactly the nodes of that query, each recorded at depth 0
C37_DepthZeroIsSimilarityOnly ==
  depth = 0 =>
    /\ \A q \in BagToSet(submitted) :
         \/ q.op = "ann" /\ CopiesIn(q, submitted) = 1
         \/ ~OfTraversal(q) /\ tpc \in {"hydrate", "done"}
    /\ tpc = "done" =>
         /\ result = seeds
         /\ DOMAIN visited_ids = seeds
         /\ \A n \in seeds : visited_ids[n] = 0

\* the call returned at depth 0 although a returned node has an outgoing
\* tag that leads to a node the similarity query did not return
C37_Witness ==
  /\ depth = 0
  /\ tpc = "done"
  /\ \A c \in BagToSet(called) : OfTraversal(c.query) => c.query.op = "ann"
  /\ result # {}
  /\ \E n \in result : \E m \in NodeIds \ result :
       store[n].link_to_tags \cap store[m].link_from_tags # {}

(***************************************************************************)
(* CassandraDatabase.aadd_chunks (ColBERT database): one row write for the *)
(* text of a chunk and one for each of its embedding vectors, all gathered *)
(* under a semaphore.                                                      *)
(***************************************************************************)
\* how many chunks a call may get
MaxChunks == 2

\* the values of concurrent_inserts
ConcurrentInserts == {0, 1, 2}

\* a chunk: its ids and the number of vectors of its embedding
Chunk(doc_id, chunk_id, vectors) ==
  [doc_id |-> doc_id, chunk_id |-> chunk_id, vectors |-> vectors]

ChunkChoices == {Chunk("d1", 0, 0), Chunk("d1", 1, 1), Chunk("d1", 0, 1)}

\* _limited_put(sem, doc_id, chunk_id, embedding_id, ...) before it runs;
\* embedding_id = -1 is the write of the text
LimitedPut(doc_id, chunk_id, embedding_id) ==
  [doc_id |-> doc_id, chunk_id |-> chunk_id, embedding_id |-> embedding_id,
   st |-> "waiting"]

\* the key (doc_id, chunk_id) of a chunk or of a row write
ChunkKey(x) == <<x.doc_id, x.chunk_id>>

RECURSIVE TasksOf(_, _)
\* `for chunk in chunks`: the text write, then one write per vector
TasksOf(chunks, i) ==
  IF i > Len(chunks) THEN << >>
  ELSE LET c == chunks[i]
       IN <<LimitedPut(c.doc_id, c.chunk_id, -1)>>
            \o [j \in 1..c.vectors |-> LimitedPut(c.doc_id, c.chunk_id, j - 1)]
            \o TasksOf(chunks, i + 1)

\* tasks_per_chunk[(doc_id, chunk_id)] += 1 for every write created
CountTasks(tasks) ==
  [key \in {ChunkKey(tasks[i]) : i \in 1..Len(tasks)} |->
     Cardinality({i \in 1..Len(tasks) : ChunkKey(tasks[i]) = key})]

RECURSIVE KeysInOrder(_, _, _)
\* the keys of tasks_per_chunk in insertion order
KeysInOrder(tasks, i, seen) ==
  IF i > Len(tasks) THEN << >>
  ELSE IF ChunkKey(tasks[i]) \in seen THEN KeysInOrder(tasks, i + 1, seen)
  ELSE <<ChunkKey(tasks[i])>>
         \o KeysInOrder(tasks, i + 1, seen \cup {ChunkKey(tasks[i])})

\* faulty variant: the semaphore admits one write more than its value
SemaphoreFreeOneMore ==
  Cardinality({i \in 1..Len(all_tasks) : all_tasks[i].st = "writing"})
    <= concurrent_inserts

\* `async with sem` can be entered
SemaphoreFree ==
  Cardinality({i \in 1..Len(all_tasks) : all_tasks[i].st = "writing"})
    < concurrent_inserts

\* faulty variant: a returned tuple counts as done whatever its exception
RemainingIgnoringErrors(counts, tasks) ==
  [key \in DOMAIN counts |->
     counts[key] - Cardinality({i \in 1..Len(tasks) :
                                  /\ ChunkKey(tasks[i]) = key
                                  /\ tasks[i].st \in {"ok", "failed"}})]

\* `for result in results`: a tuple without exception decrements the count
\* of its chunk; an exception object and a tuple with exception do not
Remaining(counts, tasks) ==
  [key \in DOMAIN counts |->
     counts[key] - Cardinality({i \in 1..Len(tasks) :
                                  /\ ChunkKey(tasks[i]) = key
                                  /\ tasks[i].st = "ok"})]

RECURSIVE KeysWhere(_, _, _)
\* the keys of the sequence, in order, whose count is (is not) zero
KeysWhere(keys, counts, zero) ==
  IF keys = << >> THEN << >>
  ELSE (IF (counts[Head(keys)] = 0) = zero THEN <<Head(keys)>> ELSE << >>)
         \o KeysWhere(Tail(keys), counts, zero)

PutInit ==
  /\ store = << >>
  /\ ppc = "build"
  /\ put_chunks \in SeqsUpTo(ChunkChoices, MaxChunks)
  /\ concurrent_inserts \in ConcurrentInserts
  /\ all_tasks = << >>
  /\ tasks_per_chunk = << >>
  /\ put_result = << >>
  /\ EngineIdle /\ TravIdle /\ MmrIdle /\ SharedIdle
  /\ FetchIdle /\ SearchIdle /\ CkIdle /\ AddIdle
  /\ SchedIdle

\* the loop that creates the row writes and counts them per chunk
PutBuild ==
  /\ ppc = "build"
  /\ all_tasks' = TasksOf(put_chunks, 1)
  /\ tasks_per_chunk' = CountTasks(TasksOf(put_chunks, 1))
  /\ ppc' = "gather"
  /\ UNCHANGED <<put_chunks, concurrent_inserts, put_result>>
  /\ UNCHANGED <<store, sharedVars, mmrOnly, travOnly, fetchOnly, searchOnly,
                 ckOnly, addOnly, schedOnly>>

\* a row write moves from state `from` to state `to`
PutStep(from, to) ==
  /\ \E i \in 1..Len(all_tasks) :
       /\ all_tasks[i].st = from
       /\ all_tasks' = [all_tasks EXCEPT ![i].st = to]
  /\ UNCHANGED <<ppc, put_chunks, concurrent_inserts, tasks_per_chunk,
                 put_result>>
  /\ UNCHANGED <<store, sharedVars, mmrOnly, travOnly, fetchOnly, searchOnly,
                 ckOnly, addOnly, schedOnly>>

\* `async with sem:` is entered and aput is awaited
PutAcquire ==
  /\ ppc = "gather"
  /\ SemaphoreFree
  /\ PutStep("waiting", "writing")

\* aput returns: return doc_id, chunk_id, embedding_id, None
PutSucceed ==
  /\ ppc = "gather"
  /\ PutStep("writing", "ok")

\* aput raises an Exception: return doc_id, chunk_id, embedding_id, e
PutFail ==
  /\ ppc = "gather"
  /\ PutStep("writing", "failed")

\* aput raises a BaseException that `except Exception` lets through: gather
\* (return_exceptions=True) hands the exception object back as the result
PutAbort ==
  /\ ppc = "gather"
  /\ PutStep("writing", "aborted")

\* every row write has a result
AllGathered ==
  \A i \in 1..Len(all_tasks) : all_tasks[i].st \in {"ok", "failed", "aborted"}

\* after `await asyncio.gather(...)`: the counts, outputs and failed_chunks,
\* and the return or the CassandraDatabaseError
PutFinish ==
  /\ ppc = "gather"
  /\ AllGathered
  /\ LET counts == Remaining(tasks_per_chunk, all_tasks)
         keys == KeysInOrder(all_tasks, 1, {})
         outputs == KeysWhere(keys, counts, TRUE)
         failed_chunks == KeysWhere(keys, counts, FALSE)
     IN /\ tasks_per_chunk' = counts
        /\ IF Len(failed_chunks) > 0
             THEN ppc' = "raised" /\ put_result' = failed_chunks
             ELSE ppc' = "returned" /\ put_result' = outputs
  /\ UNCHANGED <<put_chunks, concurrent_inserts, all_tasks>>
  /\ UNCHANGED <<store, sharedVars, mmrOnly, travOnly, fetchOnly, searchOnly,
                 ckOnly, addOnly, schedOnly>>

PutNext == PutBuild \/ PutAcquire \/ PutSucceed \/ PutFail \/ PutAbort
             \/ PutFinish

SpecPut == PutInit /\ [][PutNext]_vars

\* the row writes in one of the states
TasksIn(states) == {i \in 1..Len(all_tasks) : all_tasks[i].st \in states}

\* the row writes of the chunk at position c: the text and every vector
RowsOfChunk(c) == {-1} \cup {j - 1 : j \in 1..put_chunks[c].vectors}

\* the elements of a sequence
Range(q) == {q[i] : i \in 1..Len(q)}

\* C38: aadd_chunks keeps at most concurrent_inserts row writes in flight;
\* when it ends, every row write of every chunk was attempted, also after
\* failures; it returns the (doc_id, chunk_id) of every input chunk when
\* every write succeeded, and otherwise raises the error naming exactly the
\* chunks with a failed write; it never returns a partial list
C38_AllWritesThenAllOrError ==
  /\ Cardinality(TasksIn({"writing"})) <= concurrent_inserts
  /\ ppc \in {"returned", "raised"} =>
       /\ TasksIn({"waiting", "writing"}) = {}
       /\ \A c \in 1..Len(put_chunks) : \A e \in RowsOfChunk(c) :
            \E i \in 1..Len(all_tasks) :
               /\ ChunkKey(all_tasks[i]) = ChunkKey(put_chunks[c])
               /\ all_tasks[i].embedding_id = e
  /\ ppc = "returned" =>
       /\ TasksIn({"failed", "aborted"}) = {}
       /\ Range(put_result) = {ChunkKey(put_chunks[c]) : c \in 1..Len(put_chunks)}
       /\ Len(put_result) = Cardinality(Range(put_result))
  /\ ppc = "raised" =>
       /\ TasksIn({"failed", "aborted"}) # {}
       /\ Range(put_result) =
            {ChunkKey(all_tasks[i]) : i \in TasksIn({"failed", "aborted"})}
       /\ Len(put_result) = Cardinality(Range(put_result))

\* the call ended with the error: one write at a time, a write of one chunk
\* failed, the writes of another chunk succeeded, and only the first chunk
\* is named
C38_Witness ==
  /\ ppc = "raised"
  /\ concurrent_inserts = 1
  /\ Len(put_chunks) = 2
  /\ ChunkKey(put_chunks[1]) # ChunkKey(put_chunks[2])
  /\ Cardinality(TasksIn({"failed"})) = 1
  /\ Cardinality(TasksIn({"ok"})) >= 2
  /\ Len(put_result) = 1

====
